---- MODULE Spec2Model ----
(***************************************************************************)
(* Remote kernel transport of polynote (polynote.kernel.remote):           *)
(* FramedSocket (length-framed duplex socket with keepalive), the          *)
(* channel-identify handshake of SocketTransportServer and the startup of  *)
(* SocketTransport.deployAndServe.                                         *)
(*                                                                         *)
(* The specifications share the variables:                                 *)
(*   Spec            one direction of one connection: writer tasks and the *)
(*                   keepalive task of the sending FramedSocket, the byte  *)
(*                   stream, and the reader (bitVectors) of the receiving  *)
(*                   FramedSocket.  Channels are in blocking mode, so a    *)
(*                   socket write transfers its whole buffer; a socket     *)
(*                   read transfers any non-empty part of what is there.   *)
(*   SpecShortWrites the same, on a socket whose write calls may transfer  *)
(*                   only part of their buffer.                            *)
(*   SpecPeerClosed  a FramedSocket made with keepalive = false whose peer   *)
(*                   also puts a negative length (the peer-closed marker)  *)
(*                   on the wire.                                          *)
(*   SpecHandshake   deployAndServe: bind, deploy, accept twice, identify  *)
(*                   the two channels, then sendRequest/sendNotebookUpdate.*)
(*                   The kernel is any process that connects and writes.   *)
(*                   SpecHandshakeFair adds the fairness of the server's   *)
(*                   fibers.                                               *)
(*   SpecConnect     the same with a kernel that runs connectClient and    *)
(*                   then sends responses.                                 *)
(*   SpecClose       the serving server: concurrent callers of close(),    *)
(*                   read and keepalive failures, the exit of the kernel.  *)
(*   SpecLifecycle   the serving server with the fibers that propagate the *)
(*                   sockets' closed promises, the responses stream, the   *)
(*                   kernel and one call of close().  SpecLifecycleFair    *)
(*                   adds the fairness of the fibers.                      *)
(*   SpecResponses   the responses stream of the serving server: the       *)
(*                   kernel's responses, one call of close(), I/O failures *)
(*                   and the fibers that carry them to the server's closed *)
(*                   promise.  SpecResponsesFair adds the fairness of the  *)
(*                   stream and of the close() calls under way.            *)
(*   SpecStreams     the messages of a serving transport: sendRequest,     *)
(*                   sendNotebookUpdate, the kernel's client (requests,    *)
(*                   updates, sendResponse, close) and the server's        *)
(*                   responses.  SpecStreamsFair adds the fairness of the  *)
(*                   kernel's stream consumers.                            *)
(*   SpecCancelRead  Spec with a reading task that may be cancelled inside *)
(*                   read().                                               *)
(*   SpecCancelWrite the sending FramedSocket with write calls whose tasks *)
(*                   may be cancelled at any point.                        *)
(*   SpecEof         a FramedSocket made with keepalive = false whose      *)
(*                   sending process may die at any point, and the reader  *)
(*                   at the other end.                                     *)
(*   SpecSocket      the sending FramedSocket with its channel and closed  *)
(*                   promise: write calls and keepalives that may fail,    *)
(*                   calls of close(), a receiving end that may stop       *)
(*                   reading or go away.  SpecSocketFair adds the fairness *)
(*                   of the socket's tasks; SpecSocketCancel lets the task *)
(*                   of the first write call be cancelled.                 *)
(*   SpecHandoff     SpecConnect followed by the responses stream of the   *)
(*                   server that deployAndServe returns.                   *)
(***************************************************************************)
EXTENDS Integers, Sequences, FiniteSets, TLC

(* ------------------------------ bounds --------------------------------- *)
NumWriters == 2
MaxLen == 2
MaxKeepalives == 1
MaxPreKeepalives == 1
MaxSends == 2
MaxResponses == 1
NumClosers == 2
MaxEofReads == 2

Writers == 1..NumWriters
\* the callers of close() on the sending socket: the tapError of each write()
\* call, and 0, a task that calls close() itself
CloseCallers == Writers \cup {0}
Closers == 1..NumClosers
\* the messages a caller may write: for each length up to MaxLen, the bytes 1, 2, ...
Payloads == {[i \in 1..n |-> i] : n \in 0..MaxLen}

VARIABLES
    shortWrites,            \* may a socket write transfer only part of its buffer
    keepalive,              \* the keepalive argument of FramedSocket.apply
    writeLock,              \* permits of the sender's writeLock semaphore
    wpc, wmsg, byteBuffer,  \* each write() call: position, message, bytes still to write
    kpc, kcount,            \* keepalive task: position, number of sendKeepalive calls
    wire,                   \* bytes written and not yet read
    wireLog,                \* every byte ever written, in order
    granted,                \* the frames in the order the write mutex was granted
    rpc,                    \* reader position: "length", "payload", "ended"
    incomingLengthBuffer,   \* bytes of the length read so far
    msgLen, msgBuffer,      \* the allocated payload buffer: capacity, bytes read so far
    delivered,              \* elements emitted by bitVectors
    streamStatus,           \* bitVectors: "running", "done", "error"
    lastLen,                \* the last length the reader decoded (<<>> before the first)
    kaRead,                 \* number of length-0 frames the reader has consumed
    rcancel,                \* the task inside read() has been cancelled (interrupted)
    wcancel,                \* where each write call was when its task was cancelled
    chanOpen,               \* is the socketChannel of the sending FramedSocket open
    closed,                 \* the closed promise of the sending FramedSocket
    peer,                   \* the receiving end: "reading", "stalled" (it has stopped
                            \*   reading: socket writes block), "gone" (they fail)
    werr,                   \* the exception each write() call failed with
    kerr,                   \* the exception the keepalive task failed with
    cpc,                    \* each close() call: "idle", "acquire", "closed", "done"
    eofReads,               \* socket reads of the reader that returned -1
    srvPc,                  \* deployAndServe: "start", "bound", "deployed", "accepted1",
                            \*   "identify", "serving", "failed"
    failure,                \* the error deployAndServe failed with ("none" if none)
    serverChannel,          \* the listening socket: "none", "open", "closed"
    process,                \* the deployed process: "none", "running", "exited"
    clientPc,               \* the kernel's end of each connection: "none", "open", "closed"
    clientKa,               \* keepalives the kernel has written on each connection
    sentTag,                \* first payload frame the kernel wrote on each connection
    inbox,                  \* bytes written by the kernel and not yet read by the server
    socketOpen,             \* is the accepted socket of each connection open
    ident,                  \* identify(channel): "idle", "reading", a role, "failed",
                            \*   "interrupted"
    readNone,               \* has read() returned None inside identify(channel)
    channels,               \* SocketTransport.Channels: main and updates connection
    outLog,                 \* messages the server has written on each connection
    sends                   \* number of sendRequest / sendNotebookUpdate calls

cancelVars == <<rcancel, wcancel>>

\* the sending socket's channel and promise, its close() calls, the two ends
sockVars == <<chanOpen, closed, peer, werr, kerr, cpc, eofReads>>

frameVars == <<shortWrites, keepalive, writeLock, wpc, wmsg, byteBuffer, kpc, kcount, wire,
               wireLog, granted, rpc, incomingLengthBuffer, msgLen, msgBuffer,
               delivered, streamStatus, lastLen, kaRead, cancelVars, sockVars>>

hsVars == <<srvPc, failure, serverChannel, process, clientPc, clientKa, sentTag, inbox,
            socketOpen, ident, readNone, channels, outLog, sends>>

VARIABLES
    ccPc,                   \* connectClient in the kernel: position
    clientLog,              \* every byte the kernel has written on each connection
    responses               \* number of sendResponse calls of the kernel's client

ccVars == <<ccPc, clientLog, responses>>

VARIABLES
    fsLatch,                \* closed promise of each of the server's FramedSockets
    fsLock,                 \* permits of the writeLock of each of them
    reader,                 \* the responses stream: "idle", "running", "closing",
                            \* "closed" (inside close()), "ended", "failed"
    srvLatch,               \* closed promise of the SocketTransportServer
    watcher,                \* the fibers channelN.awaitClosed.to(closed)
    firstFired,             \* the socket whose closed promise was completed first, or 0
    scPc,                   \* each caller of SocketTransportServer.close(): position
    fcPc,                   \* its two FramedSocket.close() calls: position
    latched,                \* was the socket's promise completed when the call was made
    killCount,              \* number of process.kill() calls
    cliLatch                \* closed promise of the kernel's SocketTransportClient

lcVars == <<fsLatch, fsLock, reader, srvLatch, watcher, firstFired, scPc, fcPc,
            latched, killCount, cliLatch>>

VARIABLES
    respDelivered,          \* messages the server's responses stream has delivered
    sendResult,             \* outcomes of the send calls made so far on each side
                            \*   (srv: the server, cli: the kernel's client), in call order
    cinbox,                 \* payload frames the server wrote that the kernel has not read
    reqStream, updStream,   \* the requests and updates streams of the kernel's client
    reqDelivered,           \* messages the requests stream has delivered
    updDelivered,           \* messages the updates stream has delivered
    cfsLatch                \* closed promise of each of the kernel's FramedSockets

\* the streams and the promises of the kernel's side
streamVars == <<respDelivered, reqStream, updStream, reqDelivered, updDelivered, cfsLatch>>

msgVars == <<streamVars, sendResult, cinbox>>

vars == <<frameVars, hsVars, ccVars, lcVars, msgVars>>

(* --------------------------- wire format ------------------------------- *)
Min(a, b) == IF a < b THEN a ELSE b

Take(s, k) == SubSeq(s, 1, k)
Drop(s, k) == SubSeq(s, k + 1, Len(s))

Contains(log, m) == \E i \in 1..Len(log) : log[i] = m

IsPrefix(s, t) == Len(s) <= Len(t) /\ s = SubSeq(t, 1, Len(s))

\* ByteBuffer.putInt(0, size): signed 32-bit, big-endian
PutIntLittleEndian(n) ==
    << n % 256, (n \div 256) % 256, (n \div 65536) % 256, (n \div 16777216) % 256 >>

PutInt(n) ==
    << (n \div 16777216) % 256, (n \div 65536) % 256, (n \div 256) % 256, n % 256 >>

\* ByteBuffer.getInt(0): signed 32-bit, big-endian
GetInt(b) ==
    (IF b[1] >= 128 THEN b[1] - 256 ELSE b[1]) * 16777216
        + b[2] * 65536 + b[3] * 256 + b[4]

\* msg.toByteVector / byteVector.toByteBuffer: the bytes of the message, in order
ToByteBuffer(msg) == [i \in 1..Len(msg) |-> msg[i]]

\* number of bytes one socketChannel.write call may transfer from n remaining
WriteTransfer(n) == IF shortWrites THEN 1..n ELSE {n}

\* number of bytes one socketChannel.read call may transfer into n remaining
ReadTransfer(n) == 1..Min(Len(wire), n)

(* ------------------------------ writeLock ------------------------------ *)
AcquireUnlocked(permits) == TRUE

\* writeLock.acquire() returns only when a permit is available
Acquire(permits) == permits > 0

TryAcquireUnlocked(permits) == TRUE

\* writeLock.tryAcquire(0, SECONDS): true iff a permit is available right now
TryAcquire(permits) == permits > 0

(* ------------------------------- reader -------------------------------- *)
ReadResultKeepaliveEnds(len) ==
    IF len <= 0 THEN "None" ELSE "SomeSome"

ReadResultNegativeIgnored(len) ==
    IF len <= 0 THEN "SomeNone" ELSE "SomeSome"

\* readBuffer, after the length is complete: None, Some(None) or Some(Some(buf))
ReadResult(len) ==
    IF len < 0 THEN "None"
    ELSE IF len = 0 THEN "SomeNone"
    ELSE "SomeSome"

\* unNoneTerminate.unNone: only Some(Some(buf)) becomes an element
Emits(kind) == kind = "SomeSome"

\* unNoneTerminate: None ends the stream
Terminates(kind) == kind = "None"

EmitFront(out, buf) == <<buf>> \o out

\* the stream's output after one more element
Emit(out, buf) == Append(out, buf)

(* ----------------------- channel identification ---------------------- *)
Conns == {1, 2}
Other(c) == IF c = 1 THEN 2 ELSE 1

Roles == {"MainChannel", "NotebookUpdatesChannel"}

\* IdentifyChannel.encode: the fixed small-integer tag of a role
EncodeRole(role) == IF role = "MainChannel" THEN <<1>> ELSE <<2>>

\* IdentifyChannel.decodeBuffer: the role of a tag, or a decoding failure
DecodeBuffer(buf) ==
    IF buf = <<1>> THEN "MainChannel"
    ELSE IF buf = <<2>> THEN "NotebookUpdatesChannel"
    ELSE "failed"

\* messages a caller may pass to sendRequest, sendNotebookUpdate and
\* sendResponse: Oversized* cannot be encoded, Unknown* is encoded to bytes that
\* the codec of the receiving side does not decode
Requests == {"RemoteRequest", "ShutdownRequest", "OversizedRequest", "UnknownRequest"}
Updates == {"NotebookUpdate", "OversizedUpdate", "UnknownUpdate"}
Responses == {"RemoteResponse", "OversizedResponse", "UnknownResponse"}

EncodeFailure == [ok |-> FALSE, bits |-> <<>>]

\* RemoteRequest.codec.encode(req).toEither: the bytes of a request (its
\* discriminator), or an encoding failure
EncodeRequest(req) ==
    IF req = "RemoteRequest" THEN [ok |-> TRUE, bits |-> <<4>>]
    ELSE IF req = "ShutdownRequest" THEN [ok |-> TRUE, bits |-> <<5>>]
    ELSE IF req = "UnknownRequest" THEN [ok |-> TRUE, bits |-> <<9>>]
    ELSE EncodeFailure

\* decode.pipe[TaskB, RemoteRequest] on one frame of the main channel
DecodeRequest(buf) ==
    IF buf = <<4>> THEN "RemoteRequest"
    ELSE IF buf = <<5>> THEN "ShutdownRequest"
    ELSE "failed"

\* the codec of notebook updates, encode
EncodeUpdate(upd) ==
    IF upd = "NotebookUpdate" THEN [ok |-> TRUE, bits |-> <<6>>]
    ELSE IF upd = "UnknownUpdate" THEN [ok |-> TRUE, bits |-> <<9>>]
    ELSE EncodeFailure

\* decode.pipe on one frame of the notebook updates channel
DecodeUpdate(buf) == IF buf = <<6>> THEN "NotebookUpdate" ELSE "failed"

\* RemoteResponse.codec.encode(rep).toEither
EncodeResponse(rep) ==
    IF rep = "RemoteResponse" THEN [ok |-> TRUE, bits |-> <<3>>]
    ELSE IF rep = "UnknownResponse" THEN [ok |-> TRUE, bits |-> <<9>>]
    ELSE EncodeFailure

\* decode.pipe[TaskB, RemoteResponse] on one frame: the response, or a decoding
\* failure
DecodeResponse(buf) == IF buf = <<3>> THEN "RemoteResponse" ELSE "failed"

WriteAfterEncodeAlways(msg) == TRUE

\* for { msg <- ZIO.fromEither(codec.encode(m).toEither)...; _ <- channel.write(msg) }:
\* write is reached only with the bytes of a successful encode
WriteAfterEncode(msg) == msg.ok

\* the outcome of a send call to its caller
SendOutcome(msg) == IF msg.ok THEN "ok" ELSE "RuntimeException"

\* first payload frames a kernel may write: the two tags and one that is no tag
FirstFrames == {EncodeRole(r) : r \in Roles} \cup {<<9>>}

NoChannels == [main |-> 0, updates |-> 0]

SelectChannelsInAcceptOrder(t1, t2) ==
    IF {t1, t2} = Roles
      THEN [ok |-> TRUE, main |-> 1, updates |-> 2]
      ELSE [ok |-> FALSE, main |-> 0, updates |-> 0]

SelectChannelsAnyPair(t1, t2) ==
    IF t1 = "NotebookUpdatesChannel" /\ t2 = "MainChannel"
      THEN [ok |-> TRUE, main |-> 2, updates |-> 1]
      ELSE [ok |-> TRUE, main |-> 1, updates |-> 2]

\* selectChannels, the match on the two identified roles
SelectChannels(t1, t2) ==
    IF t1 = "MainChannel" /\ t2 = "NotebookUpdatesChannel"
      THEN [ok |-> TRUE, main |-> 1, updates |-> 2]
    ELSE IF t1 = "NotebookUpdatesChannel" /\ t2 = "MainChannel"
      THEN [ok |-> TRUE, main |-> 2, updates |-> 1]
    ELSE [ok |-> FALSE, main |-> 0, updates |-> 0]

ReadBufferCallGreedy(b, eof) ==
    IF Len(b) < 4
      THEN [kind |-> IF eof THEN "None" ELSE "blocked", buf |-> <<>>,
            rest |-> IF eof THEN <<>> ELSE b]
      ELSE LET len  == GetInt(Take(b, 4))
               rest == Drop(b, 4)
               kind == ReadResult(len)
           IN  IF kind # "SomeSome"
                 THEN [kind |-> kind, buf |-> <<>>, rest |-> rest]
               ELSE IF Len(rest) >= len
                 THEN [kind |-> "SomeSome", buf |-> Take(rest, len), rest |-> <<>>]
               ELSE [kind |-> IF eof THEN "spin" ELSE "blocked", buf |-> <<>>, rest |-> b]

\* one call of readBuffer on the unread bytes b of a socket whose peer has (eof)
\* or has not closed it: the result and the bytes left.  "blocked": the call
\* waits for more bytes; "spin": the payload loop repeats read() = -1 for ever.
ReadBufferCall(b, eof) ==
    IF Len(b) < 4
      THEN [kind |-> IF eof THEN "None" ELSE "blocked", buf |-> <<>>,
            rest |-> IF eof THEN <<>> ELSE b]
      ELSE LET len  == GetInt(Take(b, 4))
               rest == Drop(b, 4)
               kind == ReadResult(len)
           IN  IF kind # "SomeSome"
                 THEN [kind |-> kind, buf |-> <<>>, rest |-> rest]
               ELSE IF Len(rest) >= len
                 THEN [kind |-> "SomeSome", buf |-> Take(rest, len), rest |-> Drop(rest, len)]
               ELSE [kind |-> IF eof THEN "spin" ELSE "blocked", buf |-> <<>>, rest |-> b]

(* ------------------------------- Init ---------------------------------- *)
InitFrameVars ==
    /\ rcancel = FALSE
    /\ wcancel = [w \in Writers |-> "none"]
    /\ writeLock = 1
    /\ wpc = [w \in Writers |-> "idle"]
    /\ wmsg = [w \in Writers |-> <<>>]
    /\ byteBuffer = [w \in Writers |-> <<>>]
    /\ kpc = "idle"
    /\ kcount = 0
    /\ wire = <<>>
    /\ wireLog = <<>>
    /\ granted = <<>>
    /\ rpc = "length"
    /\ incomingLengthBuffer = <<>>
    /\ msgLen = 0
    /\ msgBuffer = <<>>
    /\ delivered = <<>>
    /\ streamStatus = "running"
    /\ lastLen = <<>>
    /\ kaRead = 0
    /\ chanOpen = TRUE
    /\ closed = "unset"
    /\ peer = "reading"
    /\ werr = [w \in Writers |-> "none"]
    /\ kerr = "none"
    /\ cpc = [i \in CloseCallers |-> "idle"]
    /\ eofReads = 0

InitHsVars ==
    /\ srvPc = "start"
    /\ failure = "none"
    /\ serverChannel = "none"
    /\ process = "none"
    /\ clientPc = [c \in Conns |-> "none"]
    /\ clientKa = [c \in Conns |-> 0]
    /\ sentTag = [c \in Conns |-> <<>>]
    /\ inbox = [c \in Conns |-> <<>>]
    /\ socketOpen = [c \in Conns |-> FALSE]
    /\ ident = [c \in Conns |-> "idle"]
    /\ readNone = [c \in Conns |-> FALSE]
    /\ channels = NoChannels
    /\ outLog = [c \in Conns |-> <<>>]
    /\ sends = 0

InitCcVars ==
    /\ ccPc = "start"
    /\ clientLog = [c \in Conns |-> <<>>]
    /\ responses = 0

InitLcVars ==
    /\ fsLatch = [c \in Conns |-> "unset"]
    /\ fsLock = [c \in Conns |-> 1]
    /\ reader = "idle"
    /\ srvLatch = "unset"
    /\ watcher = [c \in Conns |-> "idle"]
    /\ firstFired = 0
    /\ scPc = [k \in Closers |-> "idle"]
    /\ fcPc = [k \in Closers |-> [c \in Conns |-> "idle"]]
    /\ latched = [k \in Closers |-> [c \in Conns |-> FALSE]]
    /\ killCount = 0
    /\ cliLatch = "unset"

InitMsgVars ==
    /\ respDelivered = <<>>
    /\ sendResult = [srv |-> <<>>, cli |-> <<>>]
    /\ cinbox = [c \in Conns |-> <<>>]
    /\ reqStream = "idle"
    /\ updStream = "idle"
    /\ reqDelivered = <<>>
    /\ updDelivered = <<>>
    /\ cfsLatch = [c \in Conns |-> "unset"]

Init ==
    /\ shortWrites = FALSE
    /\ keepalive = TRUE
    /\ InitFrameVars
    /\ InitHsVars
    /\ InitCcVars
    /\ InitLcVars
    /\ InitMsgVars

InitShortWrites ==
    /\ shortWrites = TRUE
    /\ keepalive = TRUE
    /\ InitFrameVars
    /\ InitHsVars
    /\ InitCcVars
    /\ InitLcVars
    /\ InitMsgVars

InitPeerClosed ==
    /\ shortWrites = FALSE
    /\ keepalive = FALSE
    /\ InitFrameVars
    /\ InitHsVars
    /\ InitCcVars
    /\ InitLcVars
    /\ InitMsgVars

(* ------------------------- FramedSocket.write -------------------------- *)
\* bracket: the acquire is uninterruptible; a task cancelled while it waits
\* for the mutex gets the mutex, skips the use and runs the release
UseSkipped(cancel) == cancel # "none"

WriteInterruptedWhenCancelled(cancel) == cancel # "none"

\* effectBlocking { writeSize(size); while (...) write(byteBuffer) }.uninterruptible:
\* a cancel that arrives inside the region does not end it
WriteInterrupted(cancel) == FALSE

\* the task that called write is cancelled while the call is under way.  With
\* the mutex acquired and no byte written, the uninterruptible region has been
\* entered (the cancel waits for its end) or has not (the use is skipped and
\* the release runs).
CancelWrite(w) ==
    /\ wpc[w] \in {"acquire", "size", "payload", "release"}
    /\ wcancel[w] = "none"
    /\ \E entered \in BOOLEAN :
          IF wpc[w] = "size" /\ ~entered
            THEN /\ wcancel' = [wcancel EXCEPT ![w] = "acquire"]
                 /\ wpc' = [wpc EXCEPT ![w] = "release"]
                 /\ granted' = SubSeq(granted, 1, Len(granted) - 1)
            ELSE /\ wcancel' = [wcancel EXCEPT ![w] = wpc[w]]
                 /\ UNCHANGED <<wpc, granted>>
    /\ UNCHANGED <<hsVars, ccVars, lcVars, msgVars, sockVars, rcancel, keepalive, shortWrites,
                   writeLock, wmsg, byteBuffer, kpc, kcount, wire, wireLog, rpc,
                   incomingLengthBuffer, msgLen, msgBuffer, delivered, streamStatus, lastLen,
                   kaRead>>

\* a task calls write(p) and waits for the write mutex
WriteCall(w, p) ==
    /\ wpc[w] = "idle"
    /\ wpc' = [wpc EXCEPT ![w] = "acquire"]
    /\ wmsg' = [wmsg EXCEPT ![w] = p]
    /\ UNCHANGED <<hsVars, ccVars, lcVars, msgVars, sockVars, cancelVars, keepalive,
                   shortWrites, writeLock, byteBuffer, kpc, kcount, wire, wireLog, granted,
                   rpc, incomingLengthBuffer, msgLen, msgBuffer, delivered, streamStatus,
                   lastLen, kaRead>>

\* writeLock.acquire()
WriteAcquire(w) ==
    /\ wpc[w] = "acquire"
    /\ Acquire(writeLock)
    /\ writeLock' = writeLock - 1
    /\ wpc' = [wpc EXCEPT ![w] = IF UseSkipped(wcancel[w]) THEN "release" ELSE "size"]
    /\ granted' = IF UseSkipped(wcancel[w]) THEN granted
                  ELSE Append(granted, [kind |-> "msg", p |-> wmsg[w]])
    /\ UNCHANGED <<hsVars, ccVars, lcVars, msgVars, sockVars, cancelVars, keepalive,
                   shortWrites, wmsg, byteBuffer, kpc, kcount, wire, wireLog, rpc,
                   incomingLengthBuffer, msgLen, msgBuffer, delivered, streamStatus, lastLen,
                   kaRead>>

\* socketChannel.write transfers bytes while the channel is open and the peer
\* takes them; it blocks when the peer has stopped reading and throws otherwise
Writable == chanOpen /\ peer = "reading"

\* writeSize(size): one socketChannel.write of the 4-byte length, not repeated;
\* then byteVector.toByteBuffer
WriteSize(w) ==
    /\ wpc[w] = "size"
    /\ Writable
    /\ \E k \in WriteTransfer(4) :
          LET bytes == Take(PutInt(Len(wmsg[w])), k)
          IN  /\ wire' = wire \o bytes
              /\ wireLog' = wireLog \o bytes
    /\ byteBuffer' = [byteBuffer EXCEPT ![w] = ToByteBuffer(wmsg[w])]
    /\ wpc' = [wpc EXCEPT ![w] =
           IF Len(wmsg[w]) > 0 /\ ~WriteInterrupted(wcancel[w]) THEN "payload" ELSE "release"]
    /\ UNCHANGED <<hsVars, ccVars, lcVars, msgVars, sockVars, cancelVars, keepalive,
                   shortWrites, writeLock, wmsg, kpc, kcount, granted, rpc,
                   incomingLengthBuffer, msgLen, msgBuffer, delivered, streamStatus, lastLen,
                   kaRead>>

\* while (byteBuffer.hasRemaining) socketChannel.write(byteBuffer)
WritePayload(w) ==
    /\ wpc[w] = "payload"
    /\ Writable
    /\ \E k \in WriteTransfer(Len(byteBuffer[w])) :
          LET bytes == Take(byteBuffer[w], k)
              rest  == Drop(byteBuffer[w], k)
          IN  /\ wire' = wire \o bytes
              /\ wireLog' = wireLog \o bytes
              /\ byteBuffer' = [byteBuffer EXCEPT ![w] = rest]
              /\ wpc' = [wpc EXCEPT ![w] =
                     IF rest = <<>> \/ WriteInterrupted(wcancel[w]) THEN "release"
                     ELSE "payload"]
    /\ UNCHANGED <<hsVars, ccVars, lcVars, msgVars, sockVars, cancelVars, keepalive,
                   shortWrites, writeLock, wmsg, kpc, kcount, granted, rpc,
                   incomingLengthBuffer, msgLen, msgBuffer, delivered, streamStatus, lastLen,
                   kaRead>>

\* the bracket's release: writeLock.release()
WriteRelease(w) ==
    /\ wpc[w] = "release"
    /\ writeLock' = writeLock + 1
    /\ wpc' = [wpc EXCEPT ![w] = "done"]
    /\ UNCHANGED <<hsVars, ccVars, lcVars, msgVars, sockVars, cancelVars, keepalive,
                   shortWrites, wmsg, byteBuffer, kpc, kcount, wire, wireLog, granted, rpc,
                   incomingLengthBuffer, msgLen, msgBuffer, delivered, streamStatus, lastLen,
                   kaRead>>

(* ---------------------- FramedSocket.sendKeepalive --------------------- *)
KeepaliveReleasesAlways(acquired) == TRUE

\* the bracket's release of sendKeepalive:
\* acquired => if (acquired) writeLock.release() else ZIO.unit
KeepaliveReleases(acquired) == acquired

\* writeLock.tryAcquire(0, SECONDS): acquired, or the call does nothing
KeepaliveTry ==
    /\ keepalive
    /\ kpc = "idle"
    /\ kcount < MaxKeepalives
    /\ kcount' = kcount + 1
    /\ IF TryAcquire(writeLock)
         THEN /\ writeLock' = writeLock - 1
              /\ kpc' = "size"
              /\ granted' = Append(granted, [kind |-> "ka", p |-> <<>>])
         ELSE /\ writeLock' = IF KeepaliveReleases(FALSE) THEN writeLock + 1 ELSE writeLock
              /\ UNCHANGED <<kpc, granted>>
    /\ UNCHANGED <<hsVars, ccVars, lcVars, msgVars, sockVars, cancelVars, keepalive,
                   shortWrites, wpc, wmsg, byteBuffer, wire, wireLog, rpc,
                   incomingLengthBuffer, msgLen, msgBuffer, delivered, streamStatus, lastLen,
                   kaRead>>

\* writeSize(0)
KeepaliveSize ==
    /\ kpc = "size"
    /\ Writable
    /\ \E k \in WriteTransfer(4) :
          LET bytes == Take(PutInt(0), k)
          IN  /\ wire' = wire \o bytes
              /\ wireLog' = wireLog \o bytes
    /\ kpc' = "release"
    /\ UNCHANGED <<hsVars, ccVars, lcVars, msgVars, sockVars, cancelVars, keepalive,
                   shortWrites, writeLock, wpc, wmsg, byteBuffer, kcount, granted, rpc,
                   incomingLengthBuffer, msgLen, msgBuffer, delivered, streamStatus, lastLen,
                   kaRead>>

\* the bracket's release, taken because acquired was true
KeepaliveRelease ==
    /\ kpc = "release"
    /\ writeLock' = IF KeepaliveReleases(TRUE) THEN writeLock + 1 ELSE writeLock
    /\ kpc' = "idle"
    /\ UNCHANGED <<hsVars, ccVars, lcVars, msgVars, sockVars, cancelVars, keepalive,
                   shortWrites, wpc, wmsg, byteBuffer, kcount, wire, wireLog, granted, rpc,
                   incomingLengthBuffer, msgLen, msgBuffer, delivered, streamStatus, lastLen,
                   kaRead>>

(* ------------------------ the peer-closed marker ----------------------- *)
NoFrameInProgress ==
    /\ \A w \in Writers : wpc[w] \in {"idle", "acquire", "done"}
    /\ kpc = "idle"

HasMarker == \E i \in 1..Len(granted) : granted[i].kind = "mark"

\* the sending peer puts a negative length on the wire, between two frames
PeerClosedMarker ==
    /\ NoFrameInProgress
    /\ ~HasMarker
    /\ wire' = wire \o PutInt(-1)
    /\ wireLog' = wireLog \o PutInt(-1)
    /\ granted' = Append(granted, [kind |-> "mark", p |-> <<>>])
    /\ UNCHANGED <<hsVars, ccVars, lcVars, msgVars, sockVars, cancelVars, keepalive,
                   shortWrites, writeLock, wpc, wmsg, byteBuffer, kpc, kcount, rpc,
                   incomingLengthBuffer, msgLen, msgBuffer, delivered, streamStatus, lastLen,
                   kaRead>>

(* ------------- FramedSocket.readBuffer / read / bitVectors ------------- *)
\* effectBlocking(readBuffer()).uninterruptible: when the task was cancelled
\* while readBuffer ran, the interruption takes effect as readBuffer returns and
\* what it returned is dropped
Dropped(cancel) == cancel

\* the task inside read() is cancelled; it calls read() again afterwards
CancelRead ==
    /\ streamStatus = "running"
    /\ ~rcancel
    /\ rcancel' = TRUE
    /\ UNCHANGED <<hsVars, ccVars, lcVars, msgVars, sockVars, wcancel, keepalive, shortWrites,
                   writeLock, wpc, wmsg, byteBuffer, kpc, kcount, wire, wireLog, granted, rpc,
                   incomingLengthBuffer, msgLen, msgBuffer, delivered, streamStatus, lastLen,
                   kaRead>>

\* while (incomingLengthBuffer.hasRemaining) socketChannel.read(...); then the
\* length decides the result of read(), and bitVectors consumes that result
ReadLength ==
    /\ streamStatus = "running"
    /\ rpc = "length"
    /\ wire # <<>>
    /\ \E k \in ReadTransfer(4 - Len(incomingLengthBuffer)) :
          LET buf == incomingLengthBuffer \o Take(wire, k)
          IN  /\ wire' = Drop(wire, k)
              /\ IF Len(buf) < 4
                   THEN /\ incomingLengthBuffer' = buf
                        /\ UNCHANGED <<rpc, msgLen, msgBuffer, delivered, streamStatus,
                                       lastLen, kaRead, rcancel>>
                   ELSE LET len  == GetInt(buf)
                            kind == ReadResult(len)
                        IN  /\ incomingLengthBuffer' = <<>>
                            /\ lastLen' = <<len>>
                            /\ kaRead' = IF len = 0 THEN kaRead + 1 ELSE kaRead
                            /\ msgBuffer' = <<>>
                            /\ IF kind = "SomeSome" /\ len > 0
                                 THEN /\ rpc' = "payload"
                                      /\ msgLen' = len
                                      /\ UNCHANGED <<delivered, streamStatus, rcancel>>
                                 ELSE /\ msgLen' = 0
                                      /\ rcancel' = FALSE
                                      /\ rpc' = IF Terminates(kind) /\ ~Dropped(rcancel)
                                                  THEN "ended" ELSE "length"
                                      /\ streamStatus' =
                                             IF Terminates(kind) /\ ~Dropped(rcancel)
                                               THEN "done" ELSE "running"
                                      /\ delivered' =
                                             IF Emits(kind) /\ ~Dropped(rcancel)
                                               THEN Emit(delivered, <<>>) ELSE delivered
    /\ UNCHANGED <<hsVars, ccVars, lcVars, msgVars, sockVars, wcancel, keepalive, shortWrites,
                   writeLock, wpc, wmsg, byteBuffer, kpc, kcount, wireLog, granted>>

\* while (msgBuffer.hasRemaining) socketChannel.read(msgBuffer); the full buffer
\* is Some(Some(msgBuffer)), which bitVectors emits
ReadPayload ==
    /\ streamStatus = "running"
    /\ rpc = "payload"
    /\ wire # <<>>
    /\ \E k \in ReadTransfer(msgLen - Len(msgBuffer)) :
          LET buf == msgBuffer \o Take(wire, k)
          IN  /\ wire' = Drop(wire, k)
              /\ IF Len(buf) < msgLen
                   THEN /\ msgBuffer' = buf
                        /\ UNCHANGED <<rpc, msgLen, delivered, rcancel>>
                   ELSE /\ msgBuffer' = <<>>
                        /\ msgLen' = 0
                        /\ rpc' = "length"
                        /\ rcancel' = FALSE
                        /\ delivered' = IF Emits("SomeSome") /\ ~Dropped(rcancel)
                                          THEN Emit(delivered, buf) ELSE delivered
    /\ UNCHANGED <<hsVars, ccVars, lcVars, msgVars, sockVars, wcancel, keepalive, shortWrites,
                   writeLock, wpc, wmsg, byteBuffer, kpc, kcount, wireLog, granted,
                   incomingLengthBuffer, streamStatus, lastLen, kaRead>>

(* --------------------- the deployed kernel process --------------------- *)
\* the kernel opens its next connection to the advertised address
ClientConnect(c) ==
    /\ process = "running"
    /\ clientPc[c] = "none"
    /\ c = 2 => clientPc[1] # "none"
    /\ clientPc' = [clientPc EXCEPT ![c] = "open"]
    /\ UNCHANGED <<frameVars, ccVars, lcVars, msgVars, srvPc, failure, serverChannel, process,
                   clientKa, sentTag, inbox, socketOpen, ident, readNone, channels, outLog,
                   sends>>

\* the keepalive task of the kernel's FramedSocket writes a length 0
ClientKeepalive(c) ==
    /\ process = "running"
    /\ clientPc[c] = "open"
    /\ clientKa[c] < MaxPreKeepalives
    /\ clientKa' = [clientKa EXCEPT ![c] = @ + 1]
    /\ inbox' = [inbox EXCEPT ![c] = @ \o PutInt(0)]
    /\ clientLog' = [clientLog EXCEPT ![c] = @ \o PutInt(0)]
    /\ UNCHANGED <<frameVars, lcVars, msgVars, ccPc, responses, srvPc, failure, serverChannel,
                   process, clientPc, sentTag, socketOpen, ident, readNone, channels, outLog,
                   sends>>

\* the kernel writes its first payload frame on a connection
ClientFirstFrame(c, p) ==
    /\ process = "running"
    /\ clientPc[c] = "open"
    /\ sentTag[c] = <<>>
    /\ sentTag' = [sentTag EXCEPT ![c] = p]
    /\ inbox' = [inbox EXCEPT ![c] = @ \o PutInt(Len(p)) \o p]
    /\ clientLog' = [clientLog EXCEPT ![c] = @ \o PutInt(Len(p)) \o p]
    /\ UNCHANGED <<frameVars, lcVars, msgVars, ccPc, responses, srvPc, failure, serverChannel,
                   process, clientPc, clientKa, socketOpen, ident, readNone, channels,
                   outLog, sends>>

\* the kernel closes one connection
ClientClose(c) ==
    /\ process = "running"
    /\ clientPc[c] = "open"
    /\ clientPc' = [clientPc EXCEPT ![c] = "closed"]
    /\ UNCHANGED <<frameVars, ccVars, lcVars, msgVars, srvPc, failure, serverChannel, process,
                   clientKa, sentTag, inbox, socketOpen, ident, readNone, channels, outLog,
                   sends>>

\* the kernel process exits; its open connections are closed
ProcessExit ==
    /\ process = "running"
    /\ process' = "exited"
    /\ clientPc' = [c \in Conns |-> IF clientPc[c] = "open" THEN "closed" ELSE clientPc[c]]
    /\ UNCHANGED <<frameVars, ccVars, lcVars, msgVars, srvPc, failure, serverChannel, clientKa,
                   sentTag, inbox, socketOpen, ident, readNone, channels, outLog, sends>>

(* --------------------- SocketTransport.connectClient ------------------- *)
\* the role connectClient announces on its c-th socket
ConnectRole(c) == IF c = 1 THEN "MainChannel" ELSE "NotebookUpdatesChannel"

\* the role tag connectClient writes on its c-th socket, as a frame
TagFrame(c) == PutInt(Len(EncodeRole(ConnectRole(c)))) \o EncodeRole(ConnectRole(c))

ClientReadyEarly(pc) == pc \in {"updates", "taggedMain", "done"}

\* the for-comprehension yields the client only after both tags are written
ClientReady(pc) == pc = "done"

\* SocketChannel.open(serverAddress) >>= (FramedSocket(_, keepalive = true)):
\* the socket is connected and its keepalive task is forked (ClientKeepalive)
ConnectOpen(c) ==
    /\ process = "running"
    /\ \/ c = 1 /\ ccPc = "start"
       \/ c = 2 /\ ccPc = "main"
    /\ clientPc[c] = "none"
    /\ clientPc' = [clientPc EXCEPT ![c] = "open"]
    /\ ccPc' = IF c = 1 THEN "main" ELSE "updates"
    /\ UNCHANGED <<frameVars, lcVars, msgVars, clientLog, responses, srvPc, failure, serverChannel,
                   process, clientKa, sentTag, inbox, socketOpen, ident, readNone, channels,
                   outLog, sends>>

\* IdentifyChannel.encode(role) >>= channel.write
ConnectWriteTag(c) ==
    /\ process = "running"
    /\ \/ c = 1 /\ ccPc = "updates"
       \/ c = 2 /\ ccPc = "taggedMain"
    /\ LET tag == EncodeRole(ConnectRole(c))
       IN  /\ sentTag' = [sentTag EXCEPT ![c] = tag]
           /\ inbox' = [inbox EXCEPT ![c] = @ \o PutInt(Len(tag)) \o tag]
           /\ clientLog' = [clientLog EXCEPT ![c] = @ \o PutInt(Len(tag)) \o tag]
    /\ ccPc' = IF c = 1 THEN "taggedMain" ELSE "done"
    /\ UNCHANGED <<frameVars, lcVars, msgVars, responses, srvPc, failure, serverChannel, process,
                   clientPc, clientKa, socketOpen, ident, readNone, channels, outLog, sends>>

\* SocketTransportClient.sendResponse: channels.mainChannel.write(bytes)
SendResponse(rep) ==
    /\ process = "running"
    /\ ClientReady(ccPc)
    /\ clientPc[1] = "open"
    /\ responses < MaxResponses
    /\ responses' = responses + 1
    /\ LET msg == EncodeResponse(rep)
           p   == msg.bits
       IN  /\ inbox' = [inbox EXCEPT ![1] =
                  IF WriteAfterEncode(msg) THEN @ \o PutInt(Len(p)) \o p ELSE @]
           /\ clientLog' = [clientLog EXCEPT ![1] =
                  IF WriteAfterEncode(msg) THEN @ \o PutInt(Len(p)) \o p ELSE @]
           /\ sendResult' = [sendResult EXCEPT !.cli = Append(@, SendOutcome(msg))]
    /\ UNCHANGED <<frameVars, lcVars, streamVars, cinbox, ccPc, srvPc, failure, serverChannel,
                   process, clientPc, clientKa, sentTag, socketOpen, ident, readNone, channels,
                   outLog, sends>>

(* -------------------- SocketTransport.deployAndServe ------------------- *)
\* openServerChannel
OpenServerChannel ==
    /\ srvPc = "start"
    /\ srvPc' = "bound"
    /\ serverChannel' = "open"
    /\ UNCHANGED <<frameVars, ccVars, lcVars, msgVars, failure, process, clientPc, clientKa,
                   sentTag, inbox, socketOpen, ident, readNone, channels, outLog, sends>>

\* deploy.deployKernel(this, serverAddress)
DeployKernel ==
    /\ srvPc = "bound"
    /\ srvPc' = "deployed"
    /\ process' = "running"
    /\ UNCHANGED <<frameVars, ccVars, lcVars, msgVars, failure, serverChannel, clientPc, clientKa,
                   sentTag, inbox, socketOpen, ident, readNone, channels, outLog, sends>>

NextConn == IF srvPc = "deployed" THEN 1 ELSE 2

\* startConnection: server.accept() returns and the socket is framed; after the
\* second one SocketTransportServer.apply starts identify on both channels
StartConnection ==
    /\ srvPc \in {"deployed", "accepted1"}
    /\ clientPc[NextConn] # "none"
    /\ socketOpen' = [socketOpen EXCEPT ![NextConn] = TRUE]
    /\ IF srvPc = "deployed"
         THEN /\ srvPc' = "accepted1"
              /\ UNCHANGED ident
         ELSE /\ srvPc' = "identify"
              /\ ident' = [c \in Conns |-> "reading"]
    /\ UNCHANGED <<frameVars, ccVars, lcVars, msgVars, failure, serverChannel, process, clientPc,
                   clientKa, sentTag, inbox, readNone, channels, outLog, sends>>

\* startConnection: no connection arrived within the timeout
AcceptTimeout ==
    /\ srvPc \in {"deployed", "accepted1"}
    /\ clientPc[NextConn] = "none"
    /\ srvPc' = "failed"
    /\ failure' = "TimeoutException"
    /\ UNCHANGED <<frameVars, ccVars, lcVars, msgVars, serverChannel, process, clientPc, clientKa,
                   sentTag, inbox, socketOpen, ident, readNone, channels, outLog, sends>>

\* identify(channel): one read() of the repeat.  Only Some(Some(buf)) ends the
\* repeat; the buffer is then decoded.  When the other identify has failed,
\* zipPar interrupts this one as soon as its read has returned.
IdentifyRead(c) ==
    /\ srvPc = "identify"
    /\ ident[c] = "reading"
    /\ LET r == ReadBufferCall(inbox[c], clientPc[c] = "closed")
       IN  /\ r.kind \notin {"blocked", "spin"}
           /\ inbox' = [inbox EXCEPT ![c] = r.rest]
           /\ readNone' = [readNone EXCEPT ![c] = @ \/ r.kind = "None"]
           /\ ident' = [ident EXCEPT ![c] =
                  IF ident[Other(c)] = "failed" THEN "interrupted"
                  ELSE IF r.kind = "SomeSome" THEN DecodeBuffer(r.buf)
                  ELSE "reading"]
    /\ UNCHANGED <<frameVars, ccVars, lcVars, msgVars, srvPc, failure, serverChannel, process,
                   clientPc, clientKa, sentTag, socketOpen, channels, outLog, sends>>

\* selectChannels after zipPar, and the end of deployAndServe: the server is
\* returned, or the error is; nothing else is done on failure
SelectChannelsDone ==
    /\ srvPc = "identify"
    /\ \A c \in Conns : ident[c] \notin {"idle", "reading"}
    /\ IF \E c \in Conns : ident[c] = "failed"
         THEN /\ srvPc' = "failed"
              /\ failure' = "DecodeError"
              /\ UNCHANGED channels
         ELSE LET sel == SelectChannels(ident[1], ident[2])
              IN  IF sel.ok
                    THEN /\ srvPc' = "serving"
                         /\ channels' = [main |-> sel.main, updates |-> sel.updates]
                         /\ UNCHANGED failure
                    ELSE /\ srvPc' = "failed"
                         /\ failure' = "IllegalChannelSet"
                         /\ UNCHANGED channels
    /\ UNCHANGED <<frameVars, ccVars, lcVars, msgVars, serverChannel, process, clientPc, clientKa,
                   sentTag, inbox, socketOpen, ident, readNone, outLog, sends>>

(* ------------------------ SocketTransportServer ------------------------ *)
\* sendRequest: channels.mainChannel.write(msg)
SendRequest(req) ==
    /\ srvPc = "serving"
    /\ sends < MaxSends
    /\ sends' = sends + 1
    /\ LET msg == EncodeRequest(req)
       IN  /\ cinbox' = [cinbox EXCEPT ![channels.main] =
                  IF WriteAfterEncode(msg) THEN Append(@, msg.bits) ELSE @]
           /\ outLog' = [outLog EXCEPT ![channels.main] =
                  IF WriteAfterEncode(msg) THEN Append(@, req) ELSE @]
           /\ sendResult' = [sendResult EXCEPT !.srv = Append(@, SendOutcome(msg))]
    /\ UNCHANGED <<frameVars, ccVars, lcVars, streamVars, srvPc, failure, serverChannel, process,
                   clientPc, clientKa, sentTag, inbox, socketOpen, ident, readNone, channels>>

\* sendNotebookUpdate: channels.notebookUpdatesChannel.write(msg)
SendNotebookUpdate(upd) ==
    /\ srvPc = "serving"
    /\ sends < MaxSends
    /\ sends' = sends + 1
    /\ LET msg == EncodeUpdate(upd)
       IN  /\ cinbox' = [cinbox EXCEPT ![channels.updates] =
                  IF WriteAfterEncode(msg) THEN Append(@, msg.bits) ELSE @]
           /\ outLog' = [outLog EXCEPT ![channels.updates] =
                  IF WriteAfterEncode(msg) THEN Append(@, upd) ELSE @]
           /\ sendResult' = [sendResult EXCEPT !.srv = Append(@, SendOutcome(msg))]
    /\ UNCHANGED <<frameVars, ccVars, lcVars, streamVars, srvPc, failure, serverChannel, process,
                   clientPc, clientKa, sentTag, inbox, socketOpen, ident, readNone, channels>>

(* ------------------------- closed promises ----------------------------- *)
SucceedOverwrite(latch) == "success"

\* Promise.succeed(()): completes the promise unless it is already completed
Succeed(latch) == IF latch = "unset" THEN "success" ELSE latch

FailOverwrite(latch, err) == err

\* Promise.fail(err): completes the promise unless it is already completed
Fail(latch, err) == IF latch = "unset" THEN err ELSE latch

ToOnSuccess(latch, outcome) ==
    IF latch = "unset" /\ outcome = "success" THEN "success" ELSE latch

\* io.to(promise): completes the promise with the outcome of io, success or
\* failure, unless it is already completed
To(latch, outcome) == IF latch = "unset" THEN outcome ELSE latch

CloseSkipped(open) == open

\* socketChannel.close(): the channel is closed, whatever it was
Close(open) == FALSE

\* the socket whose promise was completed first, after a step on socket c
FirstFired(c) == IF firstFired = 0 /\ fsLatch[c] = "unset" THEN c ELSE firstFired

\* the state right after deployAndServe has returned the server to a kernel
\* that ran connectClient: both sockets framed with keepalive, channels
\* selected, the two awaitClosed.to(closed) fibers forked
InitLifecycle ==
    /\ shortWrites = FALSE
    /\ keepalive = TRUE
    /\ InitFrameVars
    /\ srvPc = "serving"
    /\ failure = "none"
    /\ serverChannel = "open"
    /\ process = "running"
    /\ clientPc = [c \in Conns |-> "open"]
    /\ clientKa = [c \in Conns |-> 0]
    /\ sentTag = [c \in Conns |-> EncodeRole(ConnectRole(c))]
    /\ inbox = [c \in Conns |-> <<>>]
    /\ socketOpen = [c \in Conns |-> TRUE]
    /\ ident = [c \in Conns |-> ConnectRole(c)]
    /\ readNone = [c \in Conns |-> FALSE]
    /\ channels = [main |-> 1, updates |-> 2]
    /\ outLog = [c \in Conns |-> <<>>]
    /\ sends = 0
    /\ ccPc = "done"
    /\ clientLog = [c \in Conns |-> TagFrame(c)]
    /\ responses = 0
    /\ fsLatch = [c \in Conns |-> "unset"]
    /\ fsLock = [c \in Conns |-> 1]
    /\ reader = "running"
    /\ srvLatch = "unset"
    /\ watcher = [c \in Conns |-> "waiting"]
    /\ firstFired = 0
    /\ scPc = [k \in Closers |-> "idle"]
    /\ fcPc = [k \in Closers |-> [c \in Conns |-> "idle"]]
    /\ latched = [k \in Closers |-> [c \in Conns |-> FALSE]]
    /\ killCount = 0
    /\ cliLatch = "unset"
    /\ respDelivered = <<>>
    /\ sendResult = [srv |-> <<>>, cli |-> <<>>]
    /\ cinbox = [c \in Conns |-> <<>>]
    /\ reqStream = "running"
    /\ updStream = "running"
    /\ reqDelivered = <<>>
    /\ updDelivered = <<>>
    /\ cfsLatch = [c \in Conns |-> "unset"]

\* what no step of the serving server changes; the listening socket
\* (serverChannel) is among it: nothing closes it
lcStatic == <<frameVars, srvPc, failure, serverChannel, clientKa, sentTag, ident,
              readNone, channels, outLog, sends, ccPc, clientLog, responses>>

(* --------------------- SocketTransportServer.close --------------------- *)
\* close(), first step: closed.succeed(()); channels.close() then starts the
\* close() of both FramedSockets in parallel
ServerClose(k) ==
    /\ srvPc = "serving"
    /\ scPc[k] = "idle"
    /\ srvLatch' = Succeed(srvLatch)
    /\ scPc' = [scPc EXCEPT ![k] = "channels"]
    /\ fcPc' = [fcPc EXCEPT ![k] = [c \in Conns |-> "acquire"]]
    /\ latched' = [latched EXCEPT ![k] = [c \in Conns |-> fsLatch[c] # "unset"]]
    /\ UNCHANGED <<lcStatic, msgVars, inbox, reader, process, clientPc, socketOpen, fsLatch, fsLock,
                   watcher, firstFired, killCount, cliLatch>>

\* FramedSocket.close(): writeLock.acquire() returns and, under the mutex,
\* socketChannel.close() is called, whatever the promise holds
FsCloseChannel(k, c) ==
    /\ fcPc[k][c] = "acquire"
    /\ Acquire(fsLock[c])
    /\ fsLock' = [fsLock EXCEPT ![c] = @ - 1]
    /\ socketOpen' = [socketOpen EXCEPT ![c] = Close(@)]
    /\ fcPc' = [fcPc EXCEPT ![k][c] = "closed"]
    /\ UNCHANGED <<lcStatic, msgVars, inbox, reader, process, clientPc, fsLatch, srvLatch, watcher,
                   firstFired, scPc, latched, killCount, cliLatch>>

\* FramedSocket.close(): closed.succeed(()), then writeLock.release()
FsCloseSucceed(k, c) ==
    /\ fcPc[k][c] = "closed"
    /\ fsLatch' = [fsLatch EXCEPT ![c] = Succeed(@)]
    /\ firstFired' = FirstFired(c)
    /\ fsLock' = [fsLock EXCEPT ![c] = @ + 1]
    /\ fcPc' = [fcPc EXCEPT ![k][c] = "done"]
    /\ UNCHANGED <<lcStatic, msgVars, inbox, reader, process, clientPc, socketOpen, srvLatch,
                   watcher, scPc, latched, killCount, cliLatch>>

SequenceParAny(pcs) == \E c \in Conns : pcs[c] = "done"

\* ZIO.sequencePar(Seq(mainChannel.close(), notebookUpdatesChannel.close())):
\* completes when both effects have completed
SequencePar(pcs) == \A c \in Conns : pcs[c] = "done"

\* Channels.isConnected, with FramedSocket.isConnected = socketChannel.isConnected
\* (true while the channel is connected and has not been closed)
IsConnected == socketOpen[channels.main] /\ socketOpen[channels.updates]

\* close(): sequencePar has joined both closes; process.awaitOrKill(30) starts
ChannelsClosed(k) ==
    /\ scPc[k] = "channels"
    /\ SequencePar(fcPc[k])
    /\ scPc' = [scPc EXCEPT ![k] = "awaitExit"]
    /\ UNCHANGED <<lcStatic, msgVars, inbox, reader, process, clientPc, socketOpen, fsLatch, fsLock,
                   srvLatch, watcher, firstFired, fcPc, latched, killCount, cliLatch>>

\* awaitOrKill: awaitExit(gracePeriod) returns Some(status) when the process
\* has exited and None when the grace period ends first; the first None is
\* followed by kill() (the process exits later, if it does: ProcessExit), the
\* second by the failure "Unable to kill deployed process"
KillsAfterEveryWait(pc, exited) == ~exited

\* awaitOrKill: kill() is called after the first awaitExit only, when it
\* returned None
Kills(pc, exited) == ~exited /\ pc = "awaitExit"

\* awaitOrKill: where the call is after an awaitExit has returned
AwaitOrKill(pc, exited) ==
    IF exited THEN "done"
    ELSE IF pc = "awaitExit" THEN "awaitExit2"
    ELSE "failed"

AwaitExit(k) ==
    /\ scPc[k] \in {"awaitExit", "awaitExit2"}
    /\ scPc' = [scPc EXCEPT ![k] = AwaitOrKill(scPc[k], process = "exited")]
    /\ killCount' = IF Kills(scPc[k], process = "exited") THEN killCount + 1 ELSE killCount
    /\ UNCHANGED <<lcStatic, msgVars, inbox, reader, process, clientPc, socketOpen, fsLatch, fsLock,
                   srvLatch, watcher, firstFired, fcPc, latched, cliLatch>>

(* ------------------ SocketTransportServer.apply: forks ----------------- *)
\* channelN.awaitClosed.to(closed): when the socket's promise is completed,
\* its outcome completes the server's promise
WatcherPropagate(c) ==
    /\ watcher[c] = "waiting"
    /\ fsLatch[c] # "unset"
    /\ srvLatch' = To(srvLatch, fsLatch[c])
    /\ watcher' = [watcher EXCEPT ![c] = "done"]
    /\ UNCHANGED <<lcStatic, msgVars, inbox, reader, process, clientPc, socketOpen, fsLatch, fsLock,
                   firstFired, scPc, fcPc, latched, killCount, cliLatch>>

(* ------------------------- failures of the I/O ------------------------- *)
\* read() of the responses stream fails with an IOException: tapError records
\* it on the socket's promise (again in bitVectors, to no effect) and the
\* stream ends; the channel stays open
ReadFails ==
    /\ reader = "running"
    /\ socketOpen[channels.main]
    /\ fsLatch' = [fsLatch EXCEPT ![channels.main] = Fail(@, "ReadIOException")]
    /\ firstFired' = FirstFired(channels.main)
    /\ reader' = "failed"
    /\ UNCHANGED <<lcStatic, msgVars, inbox, process, clientPc, socketOpen, fsLock, srvLatch,
                   watcher, scPc, fcPc, latched, killCount, cliLatch>>

\* read() of the responses stream returns None: the kernel's end is closed
\* and no byte of a frame is left; the stream ends, the promise is left alone.
\* With part of a frame left, readBuffer does not return (ReadBufferCall).
ReadEof ==
    /\ reader = "running"
    /\ socketOpen[channels.main]
    /\ LET r == ReadBufferCall(inbox[channels.main], clientPc[channels.main] = "closed")
       IN  /\ r.kind = "None"
           /\ inbox' = [inbox EXCEPT ![channels.main] = r.rest]
    /\ reader' = "ended"
    /\ UNCHANGED <<lcStatic, msgVars, process, clientPc, socketOpen, fsLatch, fsLock, srvLatch,
                   watcher, firstFired, scPc, fcPc, latched, killCount, cliLatch>>

\* read() on the channel after it was closed on this side: ClosedChannelException,
\* which catchSome does not handle; tapError records it and the stream ends
ReadClosedChannel ==
    /\ reader = "running"
    /\ ~socketOpen[channels.main]
    /\ fsLatch' = [fsLatch EXCEPT ![channels.main] = Fail(@, "ClosedChannelException")]
    /\ firstFired' = FirstFired(channels.main)
    /\ reader' = "failed"
    /\ UNCHANGED <<lcStatic, msgVars, inbox, process, clientPc, socketOpen, fsLock, srvLatch,
                   watcher, scPc, fcPc, latched, killCount, cliLatch>>

\* the channel was closed on this side while read() was inside it:
\* AsynchronousCloseException, which catchSome turns into close() and None
ReadAsyncClose ==
    /\ reader = "running"
    /\ ~socketOpen[channels.main]
    /\ reader' = "closing"
    /\ UNCHANGED <<lcStatic, msgVars, inbox, process, clientPc, socketOpen, fsLatch, fsLock,
                   srvLatch, watcher, firstFired, scPc, fcPc, latched, killCount, cliLatch>>

\* that close(): writeLock.acquire() and socketChannel.close()
ReaderCloseChannel ==
    /\ reader = "closing"
    /\ Acquire(fsLock[channels.main])
    /\ fsLock' = [fsLock EXCEPT ![channels.main] = @ - 1]
    /\ socketOpen' = [socketOpen EXCEPT ![channels.main] = Close(@)]
    /\ reader' = "closed"
    /\ UNCHANGED <<lcStatic, msgVars, inbox, process, clientPc, fsLatch, srvLatch, watcher,
                   firstFired, scPc, fcPc, latched, killCount, cliLatch>>

\* that close(): closed.succeed(()) and writeLock.release(); read() yields
\* None and the stream ends
ReaderCloseSucceed ==
    /\ reader = "closed"
    /\ fsLatch' = [fsLatch EXCEPT ![channels.main] = Succeed(@)]
    /\ firstFired' = FirstFired(channels.main)
    /\ fsLock' = [fsLock EXCEPT ![channels.main] = @ + 1]
    /\ reader' = "ended"
    /\ UNCHANGED <<lcStatic, msgVars, inbox, process, clientPc, socketOpen, srvLatch, watcher, scPc,
                   fcPc, latched, killCount, cliLatch>>

(* ------------------- SocketTransportServer.responses ------------------- *)
\* interruptAndIgnoreWhen(signal): the stream is interrupted once the promise
\* is completed, with success or with an error, and the error is dropped
InterruptAndIgnoreWhen(signal) == signal # "unset"

DecodeFailureRecorded(latch, err) == IF latch = "unset" THEN err ELSE latch

\* a frame that decode.pipe cannot decode fails the stream there, downstream
\* of read() and of the error handler of bitVectors: the socket's promise is
\* left as it is
DecodeFailure(latch, err) == latch

ResponsesSignalSocket == fsLatch[channels.main]

\* responses: mainChannel.bitVectors.interruptAndIgnoreWhen(closed), with the
\* closed promise of the server
ResponsesSignal == srvLatch

\* responses, one element: read() returns a keepalive or a payload frame; the
\* frame goes through decode.pipe and the response is delivered.  A frame that
\* is no response fails the stream in decode.pipe, downstream of the error
\* handler of bitVectors: no promise is touched and nothing is closed.
ResponsesRead ==
    /\ reader = "running"
    /\ socketOpen[channels.main]
    /\ ~InterruptAndIgnoreWhen(ResponsesSignal)
    /\ LET r == ReadBufferCall(inbox[channels.main], clientPc[channels.main] = "closed")
       IN  /\ r.kind \in {"SomeNone", "SomeSome"}
           /\ inbox' = [inbox EXCEPT ![channels.main] = r.rest]
           /\ IF r.kind = "SomeNone"
                THEN UNCHANGED <<reader, respDelivered, fsLatch>>
              ELSE IF DecodeResponse(r.buf) = "failed"
                THEN /\ reader' = "decodeFailed"
                     /\ fsLatch' = [fsLatch EXCEPT ![channels.main] =
                            DecodeFailure(@, "DecodeError")]
                     /\ UNCHANGED respDelivered
              ELSE /\ respDelivered' = Append(respDelivered, DecodeResponse(r.buf))
                   /\ UNCHANGED <<reader, fsLatch>>
    /\ UNCHANGED <<lcStatic, sendResult, cinbox, reqStream, updStream, reqDelivered,
                   updDelivered, cfsLatch, process, clientPc, socketOpen, fsLock, srvLatch,
                   watcher, firstFired, scPc, fcPc, latched, killCount, cliLatch>>

\* responses is interrupted: the promise is completed and the stream ends
\* without an element or an error.  The read() under way is uninterruptible:
\* what it returns (drop: one frame, when one has arrived) is discarded.
ResponsesInterrupt ==
    /\ reader = "running"
    /\ InterruptAndIgnoreWhen(ResponsesSignal)
    /\ reader' = "interrupted"
    /\ \E drop \in BOOLEAN :
          LET r == ReadBufferCall(inbox[channels.main], clientPc[channels.main] = "closed")
          IN  inbox' = IF drop /\ socketOpen[channels.main] /\ r.kind \in {"SomeNone", "SomeSome"}
                         THEN [inbox EXCEPT ![channels.main] = r.rest]
                         ELSE inbox
    /\ UNCHANGED <<lcStatic, msgVars, process, clientPc, socketOpen, fsLatch, fsLock, srvLatch,
                   watcher, firstFired, scPc, fcPc, latched, killCount, cliLatch>>

KeepaliveErrorIgnored(latch, err) == latch

\* FramedSocket.apply: sendKeepalive().tapError { err => closed.fail(err) *> ... }
KeepaliveError(latch, err) == Fail(latch, err)

\* a sendKeepalive that got the mutex fails in writeSize (the peer is gone, or
\* the channel is closed): closed.fail(err), then socketChannel.close() without
\* the mutex
KeepaliveFails(c) ==
    /\ TryAcquire(fsLock[c])
    /\ clientPc[c] = "closed" \/ ~socketOpen[c]
    /\ fsLatch' = [fsLatch EXCEPT ![c] = KeepaliveError(@, "WriteIOException")]
    /\ firstFired' = FirstFired(c)
    /\ socketOpen' = [socketOpen EXCEPT ![c] = FALSE]
    /\ UNCHANGED <<lcStatic, msgVars, inbox, reader, process, clientPc, fsLock, srvLatch, watcher,
                   scPc, fcPc, latched, killCount, cliLatch>>

(* ------------------------------ the kernel ----------------------------- *)
\* the kernel process dies while its client writes a response: the length and
\* a part of the payload are on the main connection, and both ends are closed
ProcessCrash ==
    /\ process = "running"
    /\ clientPc[1] = "open"
    /\ process' = "exited"
    /\ clientPc' = [c \in Conns |-> "closed"]
    /\ inbox' = [inbox EXCEPT ![1] = @ \o PutInt(2) \o <<1>>]
    /\ UNCHANGED <<lcStatic, msgVars, socketOpen, fsLatch, fsLock, reader, srvLatch, watcher,
                   firstFired, scPc, fcPc, latched, killCount, cliLatch>>

(* --------------------- SocketTransportClient.close --------------------- *)
\* the kernel's client.close(): closed.succeed(()) *> channels.close(), which
\* closes the kernel's ends of both connections
TransportClientClose ==
    /\ process = "running"
    /\ cliLatch' = Succeed(cliLatch)
    /\ clientPc' = [c \in Conns |-> "closed"]
    /\ cfsLatch' = [c \in Conns |-> Succeed(cfsLatch[c])]
    /\ UNCHANGED <<lcStatic, respDelivered, reqStream, updStream, reqDelivered, updDelivered,
                   sendResult, cinbox, inbox, reader, process, socketOpen, fsLatch, fsLock,
                   srvLatch, watcher, firstFired, scPc, fcPc, latched, killCount>>

(* ------------------- SocketTransportClient: streams -------------------- *)
\* what no step of the kernel's streams changes
clStatic == <<lcStatic, inbox, reader, process, socketOpen, fsLatch, fsLock, srvLatch, watcher,
              firstFired, scPc, fcPc, latched, killCount, respDelivered, sendResult>>

\* terminateAfter(p): the stream ends after the first element for which p holds
TerminateAfter(last) == IF last THEN "terminated" ELSE "running"

RequestsLastNever(req) == FALSE

\* requests: requestStream.terminateAfter(_.isInstanceOf[ShutdownRequest])
RequestsLast(req) == req = "ShutdownRequest"

\* updates: updateStream.interruptAndIgnoreWhen(closed), with the closed
\* promise of the client
UpdatesSignal == cliLatch

\* requests, one element: the next payload frame of the main connection goes
\* through decode.pipe; the request is delivered, and the stream ends after a
\* ShutdownRequest
RequestsRead ==
    /\ reqStream = "running"
    /\ clientPc[1] = "open"
    /\ cinbox[1] # <<>>
    /\ cinbox' = [cinbox EXCEPT ![1] = Tail(@)]
    /\ LET req == DecodeRequest(Head(cinbox[1]))
       IN  IF req = "failed"
             THEN /\ reqStream' = "decodeFailed"
                  /\ cfsLatch' = [cfsLatch EXCEPT ![1] = DecodeFailure(@, "DecodeError")]
                  /\ UNCHANGED reqDelivered
             ELSE /\ reqDelivered' = Append(reqDelivered, req)
                  /\ reqStream' = TerminateAfter(RequestsLast(req))
                  /\ UNCHANGED cfsLatch
    /\ UNCHANGED <<clStatic, clientPc, updStream, updDelivered, cliLatch>>

\* updates, one element: the next payload frame of the updates connection
\* goes through decode.pipe and the update is delivered
UpdatesRead ==
    /\ updStream = "running"
    /\ ~InterruptAndIgnoreWhen(UpdatesSignal)
    /\ clientPc[2] = "open"
    /\ cinbox[2] # <<>>
    /\ cinbox' = [cinbox EXCEPT ![2] = Tail(@)]
    /\ LET upd == DecodeUpdate(Head(cinbox[2]))
       IN  IF upd = "failed"
             THEN /\ updStream' = "decodeFailed"
                  /\ cfsLatch' = [cfsLatch EXCEPT ![2] = DecodeFailure(@, "DecodeError")]
                  /\ UNCHANGED updDelivered
             ELSE /\ updDelivered' = Append(updDelivered, upd)
                  /\ UNCHANGED <<updStream, cfsLatch>>
    /\ UNCHANGED <<clStatic, clientPc, reqStream, reqDelivered, cliLatch>>

\* updates is interrupted: the client's promise is completed
UpdatesInterrupt ==
    /\ updStream = "running"
    /\ InterruptAndIgnoreWhen(UpdatesSignal)
    /\ updStream' = "interrupted"
    /\ UNCHANGED <<clStatic, clientPc, cinbox, reqStream, reqDelivered, updDelivered, cfsLatch,
                   cliLatch>>

\* read() of the stream of connection c fails with an IOException (c = 1:
\* requests, c = 2: updates): read's tapError records the error on the promise
\* of that FramedSocket and bitVectors ends the stream; nothing completes the
\* promise of the client
ClientReadFails(c) ==
    /\ clientPc[c] = "open"
    /\ IF c = 1 THEN reqStream = "running" ELSE updStream = "running"
    /\ cfsLatch' = [cfsLatch EXCEPT ![c] = Fail(@, "ReadIOException")]
    /\ IF c = 1 THEN reqStream' = "failed" /\ UNCHANGED updStream
                ELSE updStream' = "failed" /\ UNCHANGED reqStream
    /\ UNCHANGED <<clStatic, clientPc, cinbox, reqDelivered, updDelivered, cliLatch>>

\* read() of the stream of connection c after the kernel's end was closed:
\* ClosedChannelException, recorded by tapError when the promise is unset; the
\* stream ends
ClientReadClosed(c) ==
    /\ clientPc[c] = "closed"
    /\ IF c = 1 THEN reqStream = "running" ELSE updStream = "running"
    /\ cfsLatch' = [cfsLatch EXCEPT ![c] = Fail(@, "ClosedChannelException")]
    /\ IF c = 1 THEN reqStream' = "failed" /\ UNCHANGED updStream
                ELSE updStream' = "failed" /\ UNCHANGED reqStream
    /\ UNCHANGED <<clStatic, clientPc, cinbox, reqDelivered, updDelivered, cliLatch>>

\* sendResponse: the write on the main channel fails with an IOException;
\* write's tapError records it on the promise of that FramedSocket and closes
\* the socket (close(): closed.succeed has no effect any more)
SendResponseFails ==
    /\ process = "running"
    /\ clientPc[1] = "open"
    /\ ~Contains(sendResult.cli, "IOException")
    /\ sendResult' = [sendResult EXCEPT !.cli = Append(@, "IOException")]
    /\ cfsLatch' = [cfsLatch EXCEPT ![1] = Succeed(Fail(@, "WriteIOException"))]
    /\ clientPc' = [clientPc EXCEPT ![1] = "closed"]
    /\ UNCHANGED <<lcStatic, inbox, reader, process, socketOpen, fsLatch, fsLock, srvLatch,
                   watcher, firstFired, scPc, fcPc, latched, killCount, respDelivered, cinbox,
                   reqStream, updStream, reqDelivered, updDelivered, cliLatch>>

(* ------------- FramedSocket: failed writes, close(), the peer ---------- *)
\* what no step of this section changes
sockStatic == <<hsVars, ccVars, lcVars, msgVars, cancelVars, keepalive, shortWrites, wmsg,
                byteBuffer, kcount, wire, wireLog, granted, incomingLengthBuffer, msgLen,
                msgBuffer, delivered, lastLen, kaRead>>

\* the receiving end stops reading: the sender's socket writes block
PeerStalls ==
    /\ peer = "reading"
    /\ peer' = "stalled"
    /\ UNCHANGED <<sockStatic, writeLock, wpc, kpc, rpc, streamStatus, chanOpen, closed, werr,
                   kerr, cpc, eofReads>>

\* the receiving end goes away: the sender's socket writes fail
PeerGone ==
    /\ peer # "gone"
    /\ peer' = "gone"
    /\ UNCHANGED <<sockStatic, writeLock, wpc, kpc, rpc, streamStatus, chanOpen, closed, werr,
                   kerr, cpc, eofReads>>

\* what socketChannel.write throws when it cannot transfer: on a closed
\* channel a ClosedChannelException, else an IOException
WriteException == IF chanOpen THEN "WriteIOException" ELSE "ClosedChannelException"

\* write(): writeSize or socketChannel.write(byteBuffer) throws inside the
\* critical section
WriteFails(w) ==
    /\ wpc[w] \in {"size", "payload"}
    /\ ~chanOpen \/ peer = "gone"
    /\ werr' = [werr EXCEPT ![w] = WriteException]
    /\ wpc' = [wpc EXCEPT ![w] = "failRelease"]
    /\ UNCHANGED <<sockStatic, writeLock, kpc, rpc, streamStatus, chanOpen, closed, peer, kerr,
                   cpc, eofReads>>

BracketReleaseOnSuccess(exit) == exit = "success"

\* acquire.bracket(release)(use): the release runs however the use ended
BracketRelease(exit) == TRUE

\* tapError: the handler runs when the call has failed, not when its task was
\* interrupted
TapErrorRuns(cancel) == cancel = "none"

\* the bracket's release after the failure: writeLock.release()
WriteFailRelease(w) ==
    /\ wpc[w] = "failRelease"
    /\ writeLock' = IF BracketRelease("failure") THEN writeLock + 1 ELSE writeLock
    /\ wpc' = [wpc EXCEPT ![w] =
           IF TapErrorRuns(wcancel[w]) THEN "tapError" ELSE "interrupted"]
    /\ UNCHANGED <<sockStatic, kpc, rpc, streamStatus, chanOpen, closed, peer, werr, kerr, cpc,
                   eofReads>>

\* write's tapError, the promise:
\* case err: ClosedChannelException => close(); case err => closed.fail(err) *> close()
WriteError(latch, err) == IF err = "ClosedChannelException" THEN latch ELSE Fail(latch, err)

TapErrorClosesOnClosedChannel(err) == err = "ClosedChannelException"

\* write's tapError: both cases end with close()
TapErrorCloses(err) == TRUE

\* write's tapError up to the call of close()
WriteTapError(w) ==
    /\ wpc[w] = "tapError"
    /\ closed' = WriteError(closed, werr[w])
    /\ IF TapErrorCloses(werr[w])
         THEN /\ wpc' = [wpc EXCEPT ![w] = "closing"]
              /\ cpc' = [cpc EXCEPT ![w] = "acquire"]
         ELSE /\ wpc' = [wpc EXCEPT ![w] = "failed"]
              /\ UNCHANGED cpc
    /\ UNCHANGED <<sockStatic, writeLock, kpc, rpc, streamStatus, chanOpen, peer, werr, kerr,
                   eofReads>>

\* a task calls close() on the socket
CloseCall ==
    /\ cpc[0] = "idle"
    /\ cpc' = [cpc EXCEPT ![0] = "acquire"]
    /\ UNCHANGED <<sockStatic, writeLock, wpc, kpc, rpc, streamStatus, chanOpen, closed, peer,
                   werr, kerr, eofReads>>

\* close(): writeLock.acquire() returns and socketChannel.close() is called
\* under the mutex
CloseChannel(i) ==
    /\ cpc[i] = "acquire"
    /\ Acquire(writeLock)
    /\ writeLock' = writeLock - 1
    /\ chanOpen' = Close(chanOpen)
    /\ cpc' = [cpc EXCEPT ![i] = "closed"]
    /\ UNCHANGED <<sockStatic, wpc, kpc, rpc, streamStatus, closed, peer, werr, kerr, eofReads>>

\* close(): closed.succeed(()), then the bracket's release; a write() whose
\* tapError made the call now returns its error
CloseSucceed(i) ==
    /\ cpc[i] = "closed"
    /\ closed' = Succeed(closed)
    /\ writeLock' = writeLock + 1
    /\ cpc' = [cpc EXCEPT ![i] = "done"]
    /\ wpc' = IF i \in Writers THEN [wpc EXCEPT ![i] = "failed"] ELSE wpc
    /\ UNCHANGED <<sockStatic, kpc, rpc, streamStatus, chanOpen, peer, werr, kerr, eofReads>>

\* sendKeepalive: writeSize(0) throws
KeepaliveWriteFails ==
    /\ kpc = "size"
    /\ ~chanOpen \/ peer = "gone"
    /\ kerr' = WriteException
    /\ kpc' = "failRelease"
    /\ UNCHANGED <<sockStatic, writeLock, wpc, rpc, streamStatus, chanOpen, closed, peer, werr,
                   cpc, eofReads>>

\* the bracket's release of the failed sendKeepalive
KeepaliveFailRelease ==
    /\ kpc = "failRelease"
    /\ writeLock' = IF KeepaliveReleases(TRUE) THEN writeLock + 1 ELSE writeLock
    /\ kpc' = "tapError"
    /\ UNCHANGED <<sockStatic, wpc, rpc, streamStatus, chanOpen, closed, peer, werr, kerr, cpc,
                   eofReads>>

\* FramedSocket.apply, tapError of the keepalive task: closed.fail(err)
KeepaliveTapError ==
    /\ kpc = "tapError"
    /\ closed' = KeepaliveError(closed, kerr)
    /\ kpc' = "closing"
    /\ UNCHANGED <<sockStatic, writeLock, wpc, rpc, streamStatus, chanOpen, peer, werr, kerr,
                   cpc, eofReads>>

\* then effectBlocking(socketChannel.close()), outside every bracket; the
\* failure ends the repeat
KeepaliveClose ==
    /\ kpc = "closing"
    /\ chanOpen' = Close(chanOpen)
    /\ kpc' = "failed"
    /\ UNCHANGED <<sockStatic, writeLock, wpc, rpc, streamStatus, closed, peer, werr, kerr, cpc,
                   eofReads>>

(* ------------------ FramedSocket.readBuffer at end of stream ----------- *)
\* the sending process dies: its end of the connection is closed, whatever
\* its tasks were writing
SenderDies ==
    /\ chanOpen
    /\ chanOpen' = FALSE
    /\ UNCHANGED <<sockStatic, writeLock, wpc, kpc, rpc, streamStatus, closed, peer, werr, kerr,
                   cpc, eofReads>>

\* readBuffer, length loop: socketChannel.read returns -1 (the sender's end is
\* closed and every byte was read): return None, which ends bitVectors
ReadLengthEof ==
    /\ streamStatus = "running"
    /\ rpc = "length"
    /\ wire = <<>>
    /\ ~chanOpen
    /\ eofReads < MaxEofReads
    /\ eofReads' = eofReads + 1
    /\ incomingLengthBuffer' = <<>>
    /\ rcancel' = FALSE
    /\ rpc' = IF Terminates("None") /\ ~Dropped(rcancel) THEN "ended" ELSE "length"
    /\ streamStatus' = IF Terminates("None") /\ ~Dropped(rcancel) THEN "done" ELSE "running"
    /\ UNCHANGED <<hsVars, ccVars, lcVars, msgVars, wcancel, keepalive, shortWrites, writeLock,
                   wpc, wmsg, byteBuffer, kpc, kcount, wire, wireLog, granted, msgLen,
                   msgBuffer, delivered, lastLen, kaRead, chanOpen, closed, peer, werr, kerr,
                   cpc>>

\* readBuffer, payload loop: while (msgBuffer.hasRemaining) socketChannel.read(msgBuffer)
\* does not look at what read returns; after a -1 the loop goes on
ReadPayloadEof ==
    /\ streamStatus = "running"
    /\ rpc = "payload"
    /\ wire = <<>>
    /\ ~chanOpen
    /\ eofReads < MaxEofReads
    /\ eofReads' = eofReads + 1
    /\ UNCHANGED <<sockStatic, writeLock, wpc, kpc, rpc, streamStatus, chanOpen, closed, peer,
                   werr, kerr, cpc>>

(* ------------------ the responses stream is started -------------------- *)
\* the owner of the server returned by deployAndServe starts to consume
\* responses: bitVectors begins to call read() on the main channel
ResponsesSubscribe ==
    /\ srvPc = "serving"
    /\ reader = "idle"
    /\ reader' = "running"
    /\ UNCHANGED <<lcStatic, msgVars, inbox, process, clientPc, socketOpen, fsLatch, fsLock,
                   srvLatch, watcher, firstFired, scPc, fcPc, latched, killCount, cliLatch>>

(* ---------------------------- specifications --------------------------- *)
NextFrame ==
    \/ \E w \in Writers, p \in Payloads : WriteCall(w, p)
    \/ \E w \in Writers : WriteAcquire(w)
    \/ \E w \in Writers : WriteSize(w)
    \/ \E w \in Writers : WritePayload(w)
    \/ \E w \in Writers : WriteRelease(w)
    \/ KeepaliveTry
    \/ KeepaliveSize
    \/ KeepaliveRelease
    \/ ReadLength
    \/ ReadPayload

Next == NextFrame

\* the same with a reading task that may be cancelled inside read()
NextCancelRead ==
    \/ NextFrame
    \/ CancelRead

SpecCancelRead == Init /\ [][NextCancelRead]_vars

\* the sending FramedSocket alone: write calls whose tasks may be cancelled at
\* any point of the call, and the keepalive task
NextCancelWrite ==
    \/ \E w \in Writers, p \in Payloads : WriteCall(w, p)
    \/ \E w \in Writers : WriteAcquire(w)
    \/ \E w \in Writers : WriteSize(w)
    \/ \E w \in Writers : WritePayload(w)
    \/ \E w \in Writers : WriteRelease(w)
    \/ \E w \in Writers : CancelWrite(w)
    \/ KeepaliveTry
    \/ KeepaliveSize
    \/ KeepaliveRelease

SpecCancelWrite == Init /\ [][NextCancelWrite]_vars

Spec == Init /\ [][Next]_vars

SpecShortWrites == InitShortWrites /\ [][Next]_vars

NextPeerClosed ==
    \/ \E w \in Writers, p \in Payloads : WriteCall(w, p)
    \/ \E w \in Writers : WriteAcquire(w)
    \/ \E w \in Writers : WriteSize(w)
    \/ \E w \in Writers : WritePayload(w)
    \/ \E w \in Writers : WriteRelease(w)
    \/ PeerClosedMarker
    \/ ReadLength
    \/ ReadPayload

SpecPeerClosed == InitPeerClosed /\ [][NextPeerClosed]_vars

NextHandshake ==
    \/ \E c \in Conns : ClientConnect(c)
    \/ \E c \in Conns : ClientKeepalive(c)
    \/ \E c \in Conns, p \in FirstFrames : ClientFirstFrame(c, p)
    \/ \E c \in Conns : ClientClose(c)
    \/ ProcessExit
    \/ OpenServerChannel
    \/ DeployKernel
    \/ StartConnection
    \/ AcceptTimeout
    \/ \E c \in Conns : IdentifyRead(c)
    \/ SelectChannelsDone
    \/ SendRequest("RemoteRequest")
    \/ SendNotebookUpdate("NotebookUpdate")

SpecHandshake == Init /\ [][NextHandshake]_vars

\* the runtime keeps running the fibers of deployAndServe, and its timer fires;
\* nothing is assumed of the kernel process
FairHandshake ==
    /\ WF_vars(OpenServerChannel)
    /\ WF_vars(DeployKernel)
    /\ WF_vars(StartConnection)
    /\ WF_vars(AcceptTimeout)
    /\ WF_vars(IdentifyRead(1))
    /\ WF_vars(IdentifyRead(2))
    /\ WF_vars(SelectChannelsDone)

SpecHandshakeFair == SpecHandshake /\ FairHandshake

\* deployAndServe with a kernel that runs connectClient
NextConnect ==
    \/ \E c \in Conns : ConnectOpen(c)
    \/ \E c \in Conns : ClientKeepalive(c)
    \/ \E c \in Conns : ConnectWriteTag(c)
    \/ \E rsp \in Responses : SendResponse(rsp)
    \/ OpenServerChannel
    \/ DeployKernel
    \/ StartConnection
    \/ AcceptTimeout
    \/ \E c \in Conns : IdentifyRead(c)
    \/ SelectChannelsDone
    \/ SendRequest("RemoteRequest")
    \/ SendNotebookUpdate("NotebookUpdate")

SpecConnect == Init /\ [][NextConnect]_vars

\* the serving server and its callers of close(), with I/O failures and the kernel
NextClose ==
    \/ \E k \in Closers : ServerClose(k)
    \/ \E k \in Closers, c \in Conns : FsCloseChannel(k, c)
    \/ \E k \in Closers, c \in Conns : FsCloseSucceed(k, c)
    \/ \E k \in Closers : ChannelsClosed(k)
    \/ \E k \in Closers : AwaitExit(k)
    \/ ReadFails
    \/ \E c \in Conns : KeepaliveFails(c)
    \/ ProcessExit

SpecClose == InitLifecycle /\ [][NextClose]_vars

\* the serving server with the fibers forked by SocketTransportServer.apply,
\* I/O failures, the kernel and its client, and one call of close()
NextLifecycle ==
    \/ ServerClose(1)
    \/ \E c \in Conns : FsCloseChannel(1, c)
    \/ \E c \in Conns : FsCloseSucceed(1, c)
    \/ ChannelsClosed(1)
    \/ AwaitExit(1)
    \/ \E c \in Conns : WatcherPropagate(c)
    \/ ReadFails
    \/ ReadEof
    \/ ReadClosedChannel
    \/ ReadAsyncClose
    \/ ReaderCloseChannel
    \/ ReaderCloseSucceed
    \/ \E c \in Conns : KeepaliveFails(c)
    \/ TransportClientClose
    \/ ProcessExit
    \/ ProcessCrash

SpecLifecycle == InitLifecycle /\ [][NextLifecycle]_vars

\* the runtime keeps running the forked fibers (the two watchers, the two
\* keepalive tasks), the responses stream and the close() call under way; read
\* errors, the kernel and the call of close() itself are left free
FairLifecycle ==
    /\ \A c \in Conns : WF_vars(WatcherPropagate(c))
    /\ \A c \in Conns : WF_vars(KeepaliveFails(c))
    /\ WF_vars(ReadEof)
    /\ WF_vars(ReadClosedChannel \/ ReadAsyncClose)
    /\ WF_vars(ReaderCloseChannel \/ ReaderCloseSucceed)
    /\ \A c \in Conns : WF_vars(FsCloseChannel(1, c) \/ FsCloseSucceed(1, c))
    /\ WF_vars(ChannelsClosed(1) \/ AwaitExit(1))

SpecLifecycleFair == SpecLifecycle /\ FairLifecycle

\* the responses stream of the serving server: the kernel's responses, the
\* causes that complete the server's promise (one call of close(), I/O failures
\* of either socket through the watchers) and the kernel's client closing
NextResponses ==
    \/ \E rsp \in Responses : SendResponse(rsp)
    \/ ResponsesRead
    \/ ResponsesInterrupt
    \/ ServerClose(1)
    \/ \E c \in Conns : FsCloseChannel(1, c)
    \/ \E c \in Conns : FsCloseSucceed(1, c)
    \/ \E c \in Conns : WatcherPropagate(c)
    \/ ReadFails
    \/ ReadEof
    \/ ReadClosedChannel
    \/ ReadAsyncClose
    \/ ReaderCloseChannel
    \/ ReaderCloseSucceed
    \/ \E c \in Conns : KeepaliveFails(c)
    \/ TransportClientClose

SpecResponses == InitLifecycle /\ [][NextResponses]_vars

\* the runtime keeps running the responses stream and the close() calls under
\* way; everything else is left free
FairResponses ==
    /\ WF_vars(ResponsesInterrupt)
    /\ WF_vars(ReaderCloseChannel \/ ReaderCloseSucceed)
    /\ \A c \in Conns : WF_vars(FsCloseChannel(1, c) \/ FsCloseSucceed(1, c))

SpecResponsesFair == SpecResponses /\ FairResponses

\* the messages of a serving transport: the server's sends, the kernel's
\* client with its requests and updates streams, its sendResponse, I/O
\* failures on its sockets and its close(); the server's responses stream
NextStreams ==
    \/ \E req \in Requests : SendRequest(req)
    \/ \E upd \in Updates : SendNotebookUpdate(upd)
    \/ \E rsp \in Responses : SendResponse(rsp)
    \/ SendResponseFails
    \/ ResponsesRead
    \/ RequestsRead
    \/ UpdatesRead
    \/ UpdatesInterrupt
    \/ \E c \in Conns : ClientReadFails(c)
    \/ \E c \in Conns : ClientReadClosed(c)
    \/ TransportClientClose

SpecStreams == InitLifecycle /\ [][NextStreams]_vars

\* the kernel keeps consuming its two streams
FairStreams ==
    /\ WF_vars(RequestsRead)
    /\ WF_vars(UpdatesRead)
    /\ WF_vars(UpdatesInterrupt)
    /\ \A c \in Conns : WF_vars(ClientReadClosed(c))

SpecStreamsFair == SpecStreams /\ FairStreams

\* a FramedSocket made with keepalive = false whose sending process may die at
\* any point, and the reader at the other end
NextEof ==
    \/ \E w \in Writers, p \in Payloads : WriteCall(w, p)
    \/ \E w \in Writers : WriteAcquire(w)
    \/ \E w \in Writers : WriteSize(w)
    \/ \E w \in Writers : WritePayload(w)
    \/ \E w \in Writers : WriteRelease(w)
    \/ SenderDies
    \/ ReadLength
    \/ ReadPayload
    \/ ReadLengthEof
    \/ ReadPayloadEof

SpecEof == InitPeerClosed /\ [][NextEof]_vars


\* the sending FramedSocket: calls of write with a one-byte message that may
\* fail, the keepalive task, callers of close(), and a receiving end that may
\* stop reading or go away
NextSocket ==
    \/ \E w \in Writers : WriteCall(w, <<1>>)
    \/ \E w \in Writers : WriteAcquire(w)
    \/ \E w \in Writers : WriteSize(w)
    \/ \E w \in Writers : WritePayload(w)
    \/ \E w \in Writers : WriteRelease(w)
    \/ \E w \in Writers : WriteFails(w)
    \/ \E w \in Writers : WriteFailRelease(w)
    \/ \E w \in Writers : WriteTapError(w)
    \/ CloseCall
    \/ \E i \in CloseCallers : CloseChannel(i)
    \/ \E i \in CloseCallers : CloseSucceed(i)
    \/ KeepaliveTry
    \/ KeepaliveSize
    \/ KeepaliveRelease
    \/ KeepaliveWriteFails
    \/ KeepaliveFailRelease
    \/ KeepaliveTapError
    \/ KeepaliveClose
    \/ PeerStalls
    \/ PeerGone

SpecSocket == Init /\ [][NextSocket]_vars

\* the runtime keeps running the tasks of the socket: every call under way
\* takes its next step when it can; nothing is assumed of the callers or of the
\* receiving end
FairSocket ==
    /\ \A w \in Writers : WF_vars(WriteAcquire(w) \/ WriteSize(w) \/ WritePayload(w)
                                    \/ WriteRelease(w))
    /\ \A w \in Writers : WF_vars(WriteFails(w) \/ WriteFailRelease(w) \/ WriteTapError(w))
    /\ \A i \in CloseCallers : WF_vars(CloseChannel(i) \/ CloseSucceed(i))
    /\ WF_vars(KeepaliveSize \/ KeepaliveRelease)
    /\ WF_vars(KeepaliveWriteFails \/ KeepaliveFailRelease \/ KeepaliveTapError
                  \/ KeepaliveClose)

SpecSocketFair == SpecSocket /\ FairSocket

\* the same, where the task of the first write call may be cancelled
NextSocketCancel ==
    \/ NextSocket
    \/ CancelWrite(1)

SpecSocketCancel == Init /\ [][NextSocketCancel]_vars

\* deployAndServe with a kernel that runs connectClient and sends responses,
\* and the responses stream of the server that deployAndServe returns
NextHandoff ==
    \/ NextConnect
    \/ ResponsesSubscribe
    \/ ResponsesRead

SpecHandoff == Init /\ [][NextHandoff]_vars

(* ------------------------ reference stream ----------------------------- *)
\* the bytes of one frame: length, then payload
Frame(e) == IF e.kind = "mark" THEN PutInt(-1) ELSE PutInt(Len(e.p)) \o e.p

RECURSIVE IdealWire(_)
IdealWire(g) == IF g = <<>> THEN <<>> ELSE Frame(Head(g)) \o IdealWire(Tail(g))

\* the frames a reader gets from a byte stream when every read transfers all it asks for
RECURSIVE DecodeFrames(_)
DecodeFrames(b) ==
    IF Len(b) < 4 THEN <<>>
    ELSE LET len  == GetInt(Take(b, 4))
             rest == Drop(b, 4)
         IN  IF len < 0 THEN <<>>
             ELSE IF len = 0 THEN DecodeFrames(rest)
             ELSE IF Len(rest) < len THEN <<>>
             ELSE <<Take(rest, len)>> \o DecodeFrames(Drop(rest, len))

\* the payloads of the write() calls, in grant order
RECURSIVE WrittenPayloads(_)
WrittenPayloads(g) ==
    IF g = <<>> THEN <<>>
    ELSE IF Head(g).kind = "msg" THEN <<Head(g).p>> \o WrittenPayloads(Tail(g))
    ELSE WrittenPayloads(Tail(g))

\* the non-empty payloads written before the peer-closed marker, in grant order
RECURSIVE PayloadFrames(_)
PayloadFrames(g) ==
    IF g = <<>> THEN <<>>
    ELSE IF Head(g).kind = "mark" THEN <<>>
    ELSE IF Head(g).kind = "msg" /\ Len(Head(g).p) > 0
         THEN <<Head(g).p>> \o PayloadFrames(Tail(g))
    ELSE PayloadFrames(Tail(g))

AllWritesDone == \A w \in Writers : wpc[w] = "done"

\* every write() has returned and the reader has taken every byte
Quiescent == AllWritesDone /\ wire = <<>> /\ ~HasMarker

MarkerIndex == CHOOSE i \in 1..Len(granted) : granted[i].kind = "mark"

\* number of bytes the reader has taken off the wire
Consumed == Len(wireLog) - Len(wire)

(* ------------------------------ claims --------------------------------- *)

\* C1 (as stated): once every write(p) has returned and the reader has read all
\* bytes, the frame stream has delivered exactly the written payloads, the
\* empty payload included, and nothing else.
C1_RoundTripAnyPayload ==
    Quiescent => delivered = WrittenPayloads(granted)

\* C1 (amended): once every write(p) has returned and the reader has read all
\* bytes, the frame stream has delivered exactly the written payloads of
\* length >= 1, in order, and nothing else; a write of the empty payload is a
\* length-0 frame and delivers nothing.
C1_RoundTrip ==
    Quiescent => delivered = PayloadFrames(granted)

C1_Witness ==
    /\ Quiescent
    /\ Len(delivered) >= 1
    /\ \E i \in 1..Len(granted) : granted[i].kind = "msg" /\ granted[i].p = <<>>

\* C2: with concurrent write calls the bytes on the wire are a concatenation
\* of whole frames in grant order: every length is directly followed by its own
\* payload, and when no frame is in progress the wire holds whole frames only.
C2_WholeFrames ==
    /\ IsPrefix(wireLog, IdealWire(granted))
    /\ NoFrameInProgress => wireLog = IdealWire(granted)

\* one write has put its length on the wire while another call waits for the mutex
C2_Witness ==
    \E w1, w2 \in Writers :
        /\ w1 # w2
        /\ wpc[w1] = "payload"
        /\ wpc[w2] = "acquire"
        /\ Len(wmsg[w2]) > 0

\* C3: a keepalive racing with writes never lands inside a frame: a receiver
\* decoding the bytes written so far gets exactly the payload frames written,
\* in order, and nothing else.
C3_KeepaliveNeverCorrupts ==
    /\ IsPrefix(DecodeFrames(wireLog), PayloadFrames(granted))
    /\ NoFrameInProgress => DecodeFrames(wireLog) = PayloadFrames(granted)

\* the keepalive task ran while a write held the mutex, and yielded
C3_Witness ==
    /\ kcount >= 1
    /\ kpc = "idle"
    /\ \A i \in 1..Len(granted) : granted[i].kind # "ka"
    /\ \E w \in Writers : wpc[w] = "payload" /\ Len(wmsg[w]) > 0

\* C4: the frames emitted by the reader's frame stream are always a prefix of
\* the payload frames (length >= 1) in the order their writers were granted the
\* write mutex: none lost, duplicated or reordered.
C4_DeliveredInGrantOrder ==
    IsPrefix(delivered, PayloadFrames(granted))

C4_Witness ==
    /\ Len(delivered) = 2
    /\ delivered[1] # delivered[2]
    /\ delivered = PayloadFrames(granted)

\* C5: the frame stream never emits an element for a length-0 frame, and
\* after reading a length-0 frame the stream is still running.
C5_KeepaliveInvisible ==
    /\ \A i \in 1..Len(delivered) : Len(delivered[i]) > 0
    /\ lastLen = <<0>> => streamStatus = "running" /\ rpc = "length"

\* a payload frame is delivered after a keepalive has been read
C5_Witness ==
    /\ kaRead >= 1
    /\ Len(delivered) >= 1
    /\ lastLen # <<>>
    /\ lastLen[1] > 0
    /\ rpc = "length"

\* C6: with socket reads and writes that transfer only part of their buffer,
\* the frames delivered are those delivered when every call transfers its
\* whole buffer: always a prefix of them, and all of them once every write has
\* returned and every byte has been read.
C6_PartialTransfersTransparent ==
    /\ IsPrefix(delivered, DecodeFrames(IdealWire(granted)))
    /\ (AllWritesDone /\ NoFrameInProgress /\ wire = <<>>)
           => delivered = DecodeFrames(IdealWire(granted))

\* C7: once the reader has read a negative length, the frame stream has ended
\* normally, and the frames delivered are exactly the payload frames written
\* before it: none for that frame, none after it.
C7_NegativeLengthEndsStream ==
    (HasMarker /\ Consumed >= Len(IdealWire(SubSeq(granted, 1, MarkerIndex))))
        => /\ streamStatus = "done"
           /\ rpc = "ended"
           /\ delivered = PayloadFrames(granted)

\* the stream has ended at the marker while a later payload frame is on the wire
C7_Witness ==
    /\ HasMarker
    /\ streamStatus = "done"
    /\ Len(delivered) >= 1
    /\ \E i \in 1..Len(granted) :
          /\ i > MarkerIndex
          /\ granted[i].kind = "msg"
          /\ Len(granted[i].p) > 0
    /\ AllWritesDone
    /\ Len(wire) > 0

HandshakeCauses == {"DecodeError", "IllegalChannelSet"}

\* the role the kernel announced on a connection: "none" before its first
\* payload frame, "failed" when that frame is no tag
Announced(c) == IF sentTag[c] = <<>> THEN "none" ELSE DecodeBuffer(sentTag[c])

\* C8: whichever accepted socket announced which role, the server's main
\* channel is the socket that announced Main and its updates channel the one
\* that announced NotebookUpdates; sendRequest has written only to the former
\* and sendNotebookUpdate only to the latter.
C8_ChannelsFollowTags ==
    /\ srvPc = "serving" =>
          /\ channels.main \in Conns /\ channels.updates \in Conns
          /\ Announced(channels.main) = "MainChannel"
          /\ Announced(channels.updates) = "NotebookUpdatesChannel"
    /\ \A c \in Conns :
          /\ Contains(outLog[c], "RemoteRequest") => Announced(c) = "MainChannel"
          /\ Contains(outLog[c], "NotebookUpdate") => Announced(c) = "NotebookUpdatesChannel"

\* crossed handshake: the first accepted socket announced NotebookUpdates and
\* has received an update, the second announced Main and has received a request
C8_Witness ==
    /\ srvPc = "serving"
    /\ Announced(1) = "NotebookUpdatesChannel"
    /\ Announced(2) = "MainChannel"
    /\ outLog[1] = <<"NotebookUpdate">>
    /\ outLog[2] = <<"RemoteRequest">>

SameRoleTwice == Announced(1) \in Roles /\ Announced(1) = Announced(2)

UndecodableFirstFrame == \E c \in Conns : Announced(c) = "failed"

\* C9: when both sockets announced the same role, or a first payload frame is
\* no role tag, no TransportServer is returned, and once selectChannels has
\* finished, construction has failed with an error.
C9_BadTagsFailConstruction ==
    (SameRoleTwice \/ UndecodableFirstFrame) =>
        /\ srvPc # "serving"
        /\ channels = NoChannels
        /\ (\A c \in Conns : ident[c] \notin {"idle", "reading"} /\ srvPc # "identify")
              => srvPc = "failed" /\ failure \in HandshakeCauses

\* construction has failed on two equal tags
C9_Witness ==
    /\ SameRoleTwice
    /\ srvPc = "failed"
    /\ failure = "IllegalChannelSet"

\* C10: when the handshake has failed, both accepted sockets and the
\* listening socket are closed and the deployed process has been terminated.
C10_NoLeakOnHandshakeFailure ==
    (srvPc = "failed" /\ failure \in HandshakeCauses) =>
        /\ \A c \in Conns : ~socketOpen[c]
        /\ serverChannel = "closed"
        /\ process # "running"

\* C11: when read() has returned None on an accepted socket inside identify
\* (EOF or a negative length before any role tag), identify on that socket has
\* ended: it is not reading the socket any more.
C11_EofEndsIdentify ==
    \A c \in Conns : readNone[c] => ident[c] # "reading"

\* C12: while the handshake waits for the first frame of a connected socket,
\* either that frame is eventually written or construction eventually fails.
C12_SilentClientTimesOut ==
    /\ (srvPc = "identify" /\ sentTag[1] = <<>>) ~> (srvPc = "failed" \/ sentTag[1] # <<>>)
    /\ (srvPc = "identify" /\ sentTag[2] = <<>>) ~> (srvPc = "failed" \/ sentTag[2] # <<>>)

\* C13: when an accept has timed out and serve() has failed with the timeout
\* error, the deployed process is not running any more.
C13_AcceptTimeoutKillsProcess ==
    (srvPc = "failed" /\ failure = "TimeoutException") => process # "running"

\* C14 as stated: the first bytes on each socket of connectClient are the
\* frame of its role tag; no frame of any kind, keepalives included, precedes it.
C14_TagIsFirstFrame ==
    \A c \in Conns : clientLog[c] # <<>> => IsPrefix(TagFrame(c), clientLog[c])

\* C14: on each socket of connectClient the first payload frame is the
\* socket's role tag (Main on the first socket, NotebookUpdates on the second);
\* only keepalive frames can precede it.
C14_TagIsFirstPayloadFrame ==
    \A c \in Conns :
        LET fs == DecodeFrames(clientLog[c])
        IN  fs # <<>> => fs[1] = (IF c = 1 THEN <<1>> ELSE <<2>>)

C14_Witness ==
    /\ IsPrefix(PutInt(0) \o TagFrame(1), clientLog[1])
    /\ responses > 0
    /\ sentTag[2] # <<>>

\* C15: every closed promise (of a FramedSocket, of the SocketTransportServer,
\* of the SocketTransportClient) is single-assignment: once it is completed, with
\* success or with an error, no step changes its value.
C15_LatchesSingleAssignment ==
    [][/\ \A c \in Conns : fsLatch[c] # "unset" => fsLatch'[c] = fsLatch[c]
       /\ srvLatch # "unset" => srvLatch' = srvLatch
       /\ cliLatch # "unset" => cliLatch' = cliLatch]_vars

C15_Witness ==
    /\ fsLatch[1] = "ReadIOException"
    /\ fcPc[1][1] = "done"
    /\ fsLatch[2] = "success"
    /\ ~socketOpen[2]
    /\ srvLatch # "unset"
    /\ \A c \in Conns : watcher[c] = "done"
    /\ cliLatch = "success"

\* C16 as stated: a server promise completed with an error holds the outcome
\* of the socket promise that was completed first.
C16_TakesFirstFiredOutcome ==
    (srvLatch \notin {"unset", "success"} /\ firstFired # 0) => srvLatch = fsLatch[firstFired]

\* C16: whenever the promise of one of the two sockets is completed, the
\* server's promise is eventually completed too; an error it holds is the
\* outcome of a socket promise that is completed, and a success it holds while
\* no close() was called does not occur.
C16_SocketLatchReachesServer ==
    /\ [](srvLatch \notin {"unset", "success"} => \E c \in Conns : fsLatch[c] = srvLatch)
    /\ [](srvLatch = "success" => scPc[1] # "idle")
    /\ (fsLatch[1] # "unset") ~> (srvLatch # "unset")
    /\ (fsLatch[2] # "unset") ~> (srvLatch # "unset")

C16_Witness ==
    /\ scPc[1] = "idle"
    /\ firstFired = 1
    /\ fsLatch[1] = "ReadIOException"
    /\ fsLatch[2] = "WriteIOException"
    /\ srvLatch = "WriteIOException"

\* C18: when a call of SocketTransportServer.close() has returned, the
\* listening socket is closed, both sockets are closed and the process has exited.
C18_AllReleasedAfterClose ==
    (\E k \in Closers : scPc[k] = "done") =>
        /\ serverChannel = "closed"
        /\ \A c \in Conns : ~socketOpen[c]
        /\ process = "exited"

\* C19: whatever the number of calls of SocketTransportServer.close(),
\* process.kill() is called at most once.
C19_KillAtMostOnce == killCount <= 1

C17_ProcessExitResolves ==
    (process = "exited") ~> (srvLatch # "unset" /\ reader \in {"ended", "failed"})

C17_Witness ==
    /\ process = "exited"
    /\ scPc[1] = "idle"
    /\ srvLatch = "WriteIOException"
    /\ reader = "ended"
    /\ \A c \in Conns : ~socketOpen[c]

\* C21: in every state after a call of SocketTransportServer.close() has
\* returned (normally or with the awaitOrKill failure), isConnected is false
\* and the server's promise is completed, so awaitClosed resolves.
C21_ClosedAfterClose ==
    \A k \in Closers : scPc[k] \in {"awaitExit", "awaitExit2", "done", "failed"} =>
        (~IsConnected /\ srvLatch # "unset")

C21_Witness ==
    /\ scPc[1] = "done"
    /\ scPc[2] = "failed"
    /\ ~IsConnected
    /\ srvLatch = "success"

ResponsesTerminated == reader \in {"interrupted", "failed", "ended", "decodeFailed"}

\* C22: from the moment the server's closed promise is completed, by close()
\* or by the outcome of a socket's promise, the responses stream delivers no
\* further response, whatever arrives or is buffered on the main channel, and
\* it eventually terminates.
C22_ClosedStopsResponses ==
    /\ [][srvLatch # "unset" => respDelivered' = respDelivered]_vars
    /\ (srvLatch # "unset") ~> ResponsesTerminated

\* the promise was completed with an error of a socket, the stream was
\* interrupted, and a response that arrived is left undelivered in the buffer
C22_Witness ==
    /\ srvLatch \notin {"unset", "success"}
    /\ reader = "interrupted"
    /\ respDelivered = <<>>
    /\ inbox[channels.main] = PutInt(1) \o EncodeResponse("RemoteResponse").bits

\* C23: the requests stream of the kernel's client delivers a ShutdownRequest
\* as its last element and has then terminated, so no request sent after it
\* is delivered; the step that ends the requests stream leaves the updates
\* stream as it is, and the updates stream is interrupted only once the
\* client's promise is completed, which only the client's close() does.
C23_ShutdownEndsRequestsOnly ==
    /\ [](\A i \in 1..Len(reqDelivered) :
             reqDelivered[i] = "ShutdownRequest" =>
                 i = Len(reqDelivered) /\ reqStream = "terminated")
    /\ [](reqStream = "terminated" =>
             reqDelivered # <<>> /\ reqDelivered[Len(reqDelivered)] = "ShutdownRequest")
    /\ [][reqStream' # reqStream => updStream' = updStream /\ updDelivered' = updDelivered]_vars
    /\ [][reqStream = "terminated" => reqDelivered' = reqDelivered]_vars
    /\ [](updStream = "interrupted" => cliLatch # "unset")
    /\ [][cliLatch' # cliLatch => clientPc' = [c \in Conns |-> "closed"]]_vars

\* the ShutdownRequest was delivered and ended the requests stream, a request
\* sent after it stays undelivered, and the updates stream is running
C23_Witness ==
    /\ reqStream = "terminated"
    /\ reqDelivered = <<"ShutdownRequest">>
    /\ cinbox[1] = <<EncodeRequest("RemoteRequest").bits>>
    /\ updStream = "running"
    /\ cliLatch = "unset"

ClientSocketFailed == \E c \in Conns : cfsLatch[c] \notin {"unset", "success"}

\* C24: once an I/O failure (a failed read on the main or the updates channel,
\* a failed write of sendResponse) has been recorded on the promise of one of
\* the kernel's FramedSockets, the promise of the SocketTransportClient is
\* eventually completed and the requests and the updates streams have both
\* terminated.
C24_ClientFailureClosesClient ==
    ClientSocketFailed ~>
        (cliLatch # "unset" /\ reqStream # "running" /\ updStream # "running")

\* a step in which a stream fails on a frame that cannot be decoded
ResponsesDecodeFails == reader # "decodeFailed" /\ reader' = "decodeFailed"
RequestsDecodeFails == reqStream # "decodeFailed" /\ reqStream' = "decodeFailed"
UpdatesDecodeFails == updStream # "decodeFailed" /\ updStream' = "decodeFailed"

NoLatchSet ==
    /\ srvLatch = "unset" /\ cliLatch = "unset"
    /\ \A c \in Conns : fsLatch[c] = "unset" /\ cfsLatch[c] = "unset"

\* C25: the step in which responses, requests or updates fails on an
\* undecodable frame changes no closed promise (of a socket, of the server, of
\* the client), closes no socket on either side, and leaves the other streams
\* and what was written for them as they are: only the stream the frame
\* arrived on has ended.
C25_DecodeFailureIsLocal ==
    /\ [][(ResponsesDecodeFails \/ RequestsDecodeFails \/ UpdatesDecodeFails) =>
              UNCHANGED <<fsLatch, cfsLatch, srvLatch, cliLatch, socketOpen, clientPc, fsLock,
                          sendResult, outLog>>]_vars
    /\ [][ResponsesDecodeFails =>
              UNCHANGED <<reqStream, updStream, cinbox, reqDelivered, updDelivered>>]_vars
    /\ [][RequestsDecodeFails =>
              /\ UNCHANGED <<reader, updStream, inbox, respDelivered, updDelivered>>
              /\ cinbox'[2] = cinbox[2]]_vars
    /\ [][UpdatesDecodeFails =>
              /\ UNCHANGED <<reader, reqStream, inbox, respDelivered, reqDelivered>>
              /\ cinbox'[1] = cinbox[1]]_vars

\* responses has failed on an undecodable frame; no promise is completed, all
\* sockets are open, and a request and an update were sent and delivered
C25_Witness ==
    /\ reader = "decodeFailed"
    /\ NoLatchSet
    /\ IsConnected
    /\ \A c \in Conns : clientPc[c] = "open"
    /\ sendResult = [srv |-> <<"ok", "ok">>, cli |-> <<"ok">>]
    /\ reqDelivered = <<"RemoteRequest">>
    /\ updDelivered = <<"NotebookUpdate">>

\* a send call that fails to its caller because the message cannot be encoded
EncodeFails ==
    \/ sendResult' = [sendResult EXCEPT !.srv = Append(@, "RuntimeException")]
    \/ sendResult' = [sendResult EXCEPT !.cli = Append(@, "RuntimeException")]

\* C26: a call of sendRequest, sendNotebookUpdate or sendResponse whose message
\* cannot be encoded fails to its caller and changes nothing else: no byte is
\* written on either connection in either direction, every write mutex is
\* free as before, no closed promise changes and no socket is closed.
C26_EncodeFailureWritesNothing ==
    /\ [][EncodeFails =>
              /\ UNCHANGED <<cinbox, inbox, outLog, clientLog>>
              /\ UNCHANGED <<fsLock, fsLatch, cfsLatch, srvLatch, cliLatch>>
              /\ UNCHANGED <<socketOpen, clientPc, streamVars>>]_vars
    /\ [](\A c \in Conns : fsLock[c] = 1)

\* a send that failed in encode was followed by a send of an encodable
\* request, which the kernel's requests stream has delivered
C26_Witness ==
    /\ sendResult.srv = <<"RuntimeException", "ok">>
    /\ sends = 2
    /\ reqDelivered = <<"RemoteRequest">>
    /\ NoLatchSet

\* closer k's awaitOrKill takes a step: an awaitExit of it returns
AwaitReturns(k) == scPc[k] \in {"awaitExit", "awaitExit2"} /\ scPc'[k] # scPc[k]

\* C27: in awaitOrKill, kill() is invoked exactly when the first awaitExit
\* ends with the process still running, and at no other point of the call (so
\* at most once per call); the call fails exactly when the second awaitExit
\* ends with the process still running, and otherwise completes normally.
C27_AwaitOrKill ==
    /\ [][\A k \in Closers : AwaitReturns(k) =>
              /\ (killCount' = killCount + 1) <=>
                     (scPc[k] = "awaitExit" /\ process # "exited")
              /\ killCount' \in {killCount, killCount + 1}
              /\ (scPc'[k] = "failed") <=> (scPc[k] = "awaitExit2" /\ process # "exited")
              /\ (scPc'[k] = "done") <=> (process = "exited")]_vars
    /\ [][killCount' # killCount => \E k \in Closers : AwaitReturns(k)]_vars
    /\ [][\A k \in Closers :
              (scPc'[k] = "failed" /\ scPc[k] # "failed") => scPc[k] = "awaitExit2"]_vars

\* one call has killed the process and failed at the end of its second wait;
\* the process has exited since, and a later call found it exited in its first
\* wait and did not kill
C27_Witness ==
    /\ scPc[1] = "failed"
    /\ scPc[2] = "done"
    /\ killCount = 1
    /\ process = "exited"

\* C28: with a reading task that is cancelled inside read() and calls read()
\* again, the frames delivered are still the payload frames written, in
\* order: always a prefix of them, and all of them once every write has
\* returned and every byte has been read.
C28_CancelledReadKeepsFrames ==
    /\ IsPrefix(delivered, PayloadFrames(granted))
    /\ (Quiescent /\ rpc = "length" /\ incomingLengthBuffer = <<>>)
           => delivered = PayloadFrames(granted)

\* the write calls that hold the mutex
Holders == {w \in Writers : wpc[w] \in {"size", "payload", "release"}}

\* C29: with write calls whose tasks are cancelled at any point, the wire
\* never keeps a partial frame: a call that reaches its release has written
\* either nothing or its whole frame, length and all payload bytes, so between
\* frames the wire holds exactly the whole frames of the calls that wrote; and
\* the mutex is held by the calls inside the bracket only, so it is free again
\* once they have ended.
C29_CancelledWriteIsWhole ==
    /\ \A w \in Writers : wpc[w] = "release" =>
           /\ byteBuffer[w] = <<>>
           /\ wireLog = IdealWire(granted)
    /\ NoFrameInProgress => wireLog = IdealWire(granted)
    /\ writeLock = 1 - Cardinality(Holders) - (IF kpc = "idle" THEN 0 ELSE 1)

\* a task was cancelled after its write had put the length on the wire and
\* before the payload; the call has ended, the whole frame is on the wire and
\* the mutex is free
C29_Witness ==
    \E w \in Writers :
        /\ wcancel[w] = "payload"
        /\ wpc[w] = "done"
        /\ Len(wmsg[w]) = MaxLen
        /\ NoFrameInProgress
        /\ wireLog = IdealWire(granted)
        /\ \E i \in 1..Len(granted) : granted[i] = [kind |-> "msg", p |-> wmsg[w]]
        /\ writeLock = 1

\* a call of sendKeepalive starts
KeepaliveCalled == kcount' = kcount + 1

\* C30: a call of sendKeepalive that finds the mutex held returns at once: it
\* writes no byte, does not release the mutex and leaves nothing waiting for
\* it; a call that finds the mutex free takes it, writes exactly the 4-byte
\* length 0 and releases it.  The keepalive task is never between call and
\* return without holding the mutex, so a write waits for at most the one
\* keepalive that holds it.
C30_KeepaliveNeverWaits ==
    /\ [][(KeepaliveCalled /\ writeLock = 0) =>
              UNCHANGED <<writeLock, wire, wireLog, granted, kpc>>]_vars
    /\ [][(KeepaliveCalled /\ writeLock = 1) =>
              /\ writeLock' = 0 /\ kpc' = "size"
              /\ granted' = Append(granted, [kind |-> "ka", p |-> <<>>])
              /\ UNCHANGED <<wire, wireLog>>]_vars
    /\ [][(kpc = "size" /\ kpc' # kpc) =>
              /\ kpc' = "release"
              /\ wireLog' = wireLog \o <<0, 0, 0, 0>>
              /\ writeLock' = 0]_vars
    /\ [][(kpc = "release" /\ kpc' # kpc) =>
              /\ kpc' = "idle"
              /\ writeLock' = 1
              /\ UNCHANGED <<wire, wireLog>>]_vars
    /\ [](kpc # "idle" =>
             /\ writeLock = 0
             /\ \A w \in Writers : wpc[w] \notin {"size", "payload", "release"})

\* the keepalive task has called sendKeepalive while a write held the mutex:
\* it is idle again, no keepalive is on the wire or granted, and the write
\* goes on holding the mutex
C30_Witness ==
    /\ kcount = MaxKeepalives
    /\ kpc = "idle"
    /\ writeLock = 0
    /\ \A i \in 1..Len(granted) : granted[i].kind = "msg"
    /\ \E w \in Writers : wpc[w] = "payload" /\ wireLog = PutInt(Len(wmsg[w]))

\* C31: whenever a socket read of the reader has returned -1 (the peer closed
\* the connection, during the length or during the payload), read() has
\* returned None: the stream of the reader has ended.
C31_EofYieldsNone == eofReads > 0 => streamStatus = "done"

\* the tasks that hold a permit of the write mutex of the sending socket
WriteHolders == {w \in Writers : wpc[w] \in {"size", "payload", "release", "failRelease"}}
KeepaliveHolds == kpc \in {"size", "release", "failRelease"}
CloseHolders == {i \in CloseCallers : cpc[i] = "closed"}
PermitsHeld ==
    Cardinality(WriteHolders) + Cardinality(CloseHolders) + (IF KeepaliveHolds THEN 1 ELSE 0)

\* C32: once a write() call or the keepalive task has failed in a socket
\* write, the closed promise of the socket is completed, its channel is
\* closed, and the permit the failed operation held is back in the mutex.
C32_FailedWriteCloses ==
    ((\E w \in Writers : wpc[w] = "failed") \/ kpc = "failed") =>
        /\ closed # "unset"
        /\ ~chanOpen
        /\ writeLock + PermitsHeld = 1

C32_Witness ==
    /\ kpc = "failed"
    /\ \E w \in Writers : wpc[w] = "failed" /\ werr[w] = "WriteIOException"
    /\ \E w \in Writers : wpc[w] = "failed" /\ werr[w] = "ClosedChannelException"

\* C33: a read() of the responses stream on a channel that has been closed on
\* this side yields None (the stream goes on to end through the close() of
\* read) and raises no error: the stream does not fail and the socket's
\* promise is not completed by that read.
C33_ClosedReadYieldsNone ==
    [][(reader = "running" /\ ~socketOpen[channels.main] /\ reader' # reader) =>
          (reader' = "closing" /\ fsLatch' = fsLatch)]_vars

\* C34, for the pair of the kernel's client and a socket that has become
\* closed: whenever one socket of the pair is closed, the other socket of the
\* pair is eventually closed as well.
C34_PairClosesTogether ==
    \A c \in Conns : (clientPc[c] = "closed") ~> (clientPc[Other(c)] = "closed")

\* C35: every call of close() on the socket eventually completes, with the
\* channel closed, whatever writes and keepalives are under way.
C35_CloseCompletes ==
    \A i \in CloseCallers : (cpc[i] = "acquire") ~> (cpc[i] = "done" /\ ~chanOpen)

\* C36: a call of SocketTransportServer.close() first completes the server's
\* promise with success if it is unset, then runs the close() of both sockets,
\* then, once both have completed, awaitOrKill; and it has returned
\* successfully only when both sockets are closed and the process has exited.
C36_CloseInOrder ==
    /\ [][\A k \in Closers :
            /\ (scPc[k] = "idle" /\ scPc'[k] # "idle") =>
                  /\ scPc'[k] = "channels"
                  /\ srvLatch' = IF srvLatch = "unset" THEN "success" ELSE srvLatch
                  /\ \A c \in Conns : fcPc[k][c] = "idle"
            /\ (\E c \in Conns : fcPc'[k][c] # fcPc[k][c] /\ fcPc[k][c] # "idle") =>
                  (scPc[k] = "channels" /\ srvLatch # "unset")
            /\ (scPc[k] = "channels" /\ scPc'[k] # "channels") =>
                  /\ scPc'[k] = "awaitExit"
                  /\ \A c \in Conns : fcPc[k][c] = "done" /\ ~socketOpen[c]
            /\ (scPc[k] \in {"awaitExit", "awaitExit2"} /\ scPc'[k] # scPc[k]) =>
                  scPc'[k] \in {"awaitExit2", "done", "failed"}]_vars
    /\ [](\A k \in Closers :
            scPc[k] = "done" => ((\A c \in Conns : ~socketOpen[c]) /\ process = "exited"))

C36_Witness ==
    /\ \E k \in Closers : scPc[k] = "done" /\ latched[k][1] /\ ~latched[k][2]
    /\ srvLatch = "success"
    /\ killCount = 1

\* the bytes of b that follow its first payload frame
RECURSIVE SkipFirstPayload(_)
SkipFirstPayload(b) ==
    IF Len(b) < 4 THEN <<>>
    ELSE LET len == GetInt(Take(b, 4))
         IN  IF len = 0 THEN SkipFirstPayload(Drop(b, 4)) ELSE Drop(b, 4 + len)

\* the payload frames the kernel wrote on connection c after its role tag
AfterTag(c) == DecodeFrames(SkipFirstPayload(clientLog[c]))

\* the frames of connection c that the responses stream has taken
TakenByResponses(c) ==
    IF srvPc = "serving" /\ c = channels.main
      THEN Len(respDelivered) + (IF reader = "decodeFailed" THEN 1 ELSE 0)
      ELSE 0

\* C37: when identify has decoded the tag of an accepted socket, the role is
\* the one the kernel announced, whatever keepalives preceded the tag; the
\* handshake has consumed the bytes up to the end of the tag frame and no
\* more; and every payload frame written after the tag has been delivered by
\* the responses stream, in order, or is still unread on the socket.
C37_HandshakeTakesOneFrame ==
    \A c \in Conns :
        ident[c] \in Roles =>
            /\ ident[c] = DecodeBuffer(sentTag[c])
            /\ reader = "idle" => inbox[c] = SkipFirstPayload(clientLog[c])
            /\ Len(AfterTag(c)) = TakenByResponses(c) + Len(DecodeFrames(inbox[c]))
            /\ (srvPc = "serving" /\ c = channels.main) =>
                  \A i \in 1..Len(respDelivered) :
                      respDelivered[i] = DecodeResponse(AfterTag(c)[i])

C37_Witness ==
    /\ srvPc = "serving"
    /\ Take(clientLog[channels.main], 4) = PutInt(0)
    /\ Len(AfterTag(channels.main)) > 0
    /\ Len(respDelivered) = Len(AfterTag(channels.main))

\* C38: whenever the closed promise of one of the server's FramedSockets is
\* completed, the channel of that socket is eventually closed.
C38_LatchedSocketIsClosed ==
    \A c \in Conns : (fsLatch[c] # "unset") ~> ~socketOpen[c]

\* a write() or the keepalive task is between the length prefix of its frame
\* and the end of the frame
FrameUnderWay == (\E w \in Writers : wpc[w] \in {"size", "payload"}) \/ kpc = "size"

\* C39: the step that closes the channel of the socket is taken by a close()
\* call that has just acquired the write mutex, and no write() or
\* sendKeepalive() is inside its critical section at that step.
C39_ClosedUnderMutex ==
    [][(chanOpen /\ ~chanOpen') =>
          /\ \E i \in CloseCallers : cpc[i] = "acquire" /\ cpc'[i] = "closed"
          /\ ~FrameUnderWay]_vars

\* C40: the write mutex has 0 or 1 permits; at most one of the write(),
\* sendKeepalive() and close() calls holds a permit, and the permits held and
\* the permits left always add up to one, so that every permit acquired is
\* back once its operation has ended, however it ended (returned, failed, was
\* cancelled); a step that releases a permit is a step of the task that holds
\* it, and a sendKeepalive that did not acquire leaves the mutex as it is.
C40_MutexIsBinary ==
    /\ [](writeLock \in {0, 1})
    /\ [](PermitsHeld <= 1 /\ writeLock + PermitsHeld = 1)
    /\ [][writeLock' > writeLock =>
            (writeLock' = writeLock + 1 /\ PermitsHeld' = PermitsHeld - 1)]_vars
    /\ [][(kcount' # kcount /\ kpc' = "idle") => writeLock' = writeLock]_vars

C40_Witness ==
    /\ wcancel[1] = "acquire"
    /\ wpc[1] = "done"
    /\ wpc[2] = "failed"
    /\ kpc = "failed"
    /\ cpc[0] = "done"
    /\ writeLock = 1

====
